---------------------------- MODULE Spec2Model ----------------------------
(***************************************************************************)
(* State-machine model of the RCON session layer of the repository.        *)
(*                                                                         *)
(*   RawRCONClient (src/serverowner.py): future-per-request session with   *)
(*   a background receive task.  Variables without a prefix.               *)
(*                                                                         *)
(*   RCON (src/Basic_Console.py): one command at a time, the reply is the  *)
(*   next frame read.  Variables with the prefix rcon_.                    *)
(*                                                                         *)
(*   RCONListener and listen_to_rcon (src/Admin.py): one listening task    *)
(*   hands every frame to process_rcon_message, which looks the frame up   *)
(*   in the pending map.  Variables with the prefix a_.                    *)
(*                                                                         *)
(*   RCONListener (src/Emote.py): one listening task that hands the text   *)
(*   of a frame to the callback of the emote engine; it keeps no pending   *)
(*   map.  Variables with the prefix e_.                                   *)
(*                                                                         *)
(*   EmoteManager (src/Emote.py): the callback of the emote bot, with the  *)
(*   emote file, the cooldown map, the coordinate store, the capture       *)
(*   marker and the set of processed chat events.  Variables with the      *)
(*   names of its fields, ghosts with the prefix m_.                       *)
(*                                                                         *)
(* The code runs on one asyncio event loop: a step of the model is the     *)
(* code one task runs between two suspension points (await).  A websocket  *)
(* handle is the number of the connection it refers to, 0 is None.         *)
(***************************************************************************)
EXTENDS Integers, Sequences, FiniteSets, TLC

\* ------------------------------------------------------------- bounds ----
NumCallers == 2      \* concurrent on_message handlers calling send_raw_command
MaxId == 2           \* a new send starts only while command_counter <= MaxId
MaxConn == 2         \* connections the server accepts over the run
MaxClose == 2        \* calls of close()
DropPending == 3     \* pending requests at the drop of the reconnection scenario
MaxTime == 2         \* minutes the clock of the emote engine runs
MaxChats == 2        \* distinct chat events the emote engine processes
CollisionTime == 3   \* minutes the clock of the cooldown scenario runs
CollisionChats == 3  \* distinct chat events of the cooldown scenario
MaxLines == 4        \* lines of an emote file the registry is read from
NumHandlers == 2     \* concurrent on_voice_state_update handlers of the radio bot

Conns == 1..MaxConn

VARIABLES
    \* RawRCONClient fields (serverowner.py:22-28)
    websocket, is_connected, command_counter, pending_responses, receive_task,
    \* tasks of the event loop
    pc,          \* per caller: where its send_raw_command is suspended
    cid,         \* per caller: the local current_id
    fut,         \* per caller: the state of its response_future
    cws,         \* per caller: the websocket its command was written on
    rtask,       \* per _receive_messages task: "none", "new", "recv", "done"
    rws,         \* per _receive_messages task: the websocket its recv() waits on
    boot,        \* on_ready: "connecting" until its connect() returned
    close_pc,    \* close(): "idle", or "closing" while awaiting websocket.close()
    closes,      \* calls of close() so far
    \* the network
    conn,        \* per connection: "unused", "open", "closed"
    written,     \* per connection: Identifiers of the commands written on it
    \* observation
    maxAlloc,    \* largest Identifier allocated so far (0: none)
    seen,        \* callers whose Identifier was carried by a frame read during their wait
    doneIds,     \* Identifiers of requests already fulfilled or timed out
    atClose,     \* callers suspended on a request when close() was last called
    dropped,     \* a connection dropped with DropPending requests pending on it
    ev           \* what the last step did (see NoEv)

rawVars == <<websocket, is_connected, command_counter, pending_responses,
             receive_task, pc, cid, fut, cws, rtask, rws, boot, close_pc, closes,
             conn, written, maxAlloc, seen, doneIds, atClose, dropped, ev>>

VARIABLES
    \* RCON fields (Basic_Console.py:9-12)
    rcon_websocket, rcon_command_counter,
    rcon_pc,       \* main(): "idle" between calls, "recv" while send() awaits recv()
    rcon_id,       \* the local command_id of the send() in progress
    rcon_conn,     \* per connection: "unused", "open", "closed"
    rcon_written,  \* Identifiers of the commands written on the current connection
    rcon_closes,   \* calls of close() so far
    rcon_ev        \* what the last step returned (see NoRconEv)

basicVars == <<rcon_websocket, rcon_command_counter, rcon_pc, rcon_id, rcon_conn,
               rcon_written, rcon_closes, rcon_ev>>

VARIABLES
    \* RCONListener fields (Admin.py:23-29)
    a_websocket, a_is_connected, a_command_counter, a_pending_responses, a_listening,
    a_boot,      \* on_ready: "connecting" until its connect() returned
    a_lpc,       \* listen_to_rcon: "off", "top", "closing", "connecting", "sleep",
                 \*                 "recv", "replying"
    a_lws,       \* the websocket the recv() of listen_forever waits on
    a_frame,     \* the Identifier of the frame process_rcon_message replies to
    a_spc,       \* per caller of send_command: "idle", "connecting", "sent", "failed"
    a_conn,      \* per connection: "unused", "open", "closed"
    a_written,   \* per connection: Identifiers of the commands written on it
    a_ev         \* the frame whose processing ended in the last step (see NoAdminEv)

adminVars == <<a_websocket, a_is_connected, a_command_counter, a_pending_responses,
               a_listening, a_boot, a_lpc, a_lws, a_frame, a_spc, a_conn, a_written,
               a_ev>>

VARIABLES
    \* RCONListener fields (Emote.py:25-29)
    e_websocket, e_is_connected, e_command_counter,
    e_boot,      \* on_ready: "connecting" until its connect() returned
    e_lpc,       \* listen_continuously: "off", "top", "connecting", "sleep", "recv",
                 \*   "callback", or "sending" while send_command awaits connect()
    e_conn,      \* per connection: "unused", "open", "closed"
    e_ev         \* the frame read in the last step (see NoEmoteEv)

emoteVars == <<e_websocket, e_is_connected, e_command_counter, e_boot, e_lpc, e_conn,
               e_ev>>

VARIABLES
    \* EmoteManager fields (Emote.py:124-130) and the files it keeps
    emotes_file,               \* emote_commands.ini: [exists, lines]
    emotes_data,               \* the dict of emotes read from the file
    emote_cooldowns,           \* cooldown key -> time of the last success
    coordinates_config,        \* player -> "x,y,z"
    coordinates_file,          \* player_coordinates.ini: [exists, lines]
    current_printpos_player,   \* {} is None, {p} is the player p
    processed_chat_ids,
    now,                       \* datetime.now(), in minutes
    usernames,   \* the players on the server: the name of the user with each id
    m_pc,        \* "new" before _load_configurations, "loaded" after it, "saved"
                 \*   after a _write_emote_config, "reloaded" after the read that follows
    m_saved,     \* the dict the last _write_emote_config was given
    m_last,      \* (player, emote) -> time of the last evaluation that ended in success
    m_ev,        \* what process_message did with the last message (see NoManagerEv)
    m_asked,     \* the capture requests and the positional texts since none was open
                 \*   (see NoneAsked)
    h_calls,     \* the calls of handle_emote_request suspended at an await (see Call)
    \* rustradio.py
    r_calls      \* per handler: its call of safe_connect or safe_play_radio (see NoCall)

managerVars == <<emotes_file, emotes_data, emote_cooldowns, coordinates_config,
                 coordinates_file, current_printpos_player, processed_chat_ids, now,
                 usernames, m_pc, m_saved, m_last, m_ev, m_asked, h_calls>>

radioVars == <<r_calls>>

\* The variables of the other programs, which a step of one program leaves alone.
notRaw == <<basicVars, adminVars, emoteVars, managerVars, radioVars>>
notBasic == <<rawVars, adminVars, emoteVars, managerVars, radioVars>>
notAdmin == <<rawVars, basicVars, emoteVars, managerVars, radioVars>>
notEmote == <<rawVars, basicVars, adminVars, managerVars, radioVars>>
notManager == <<rawVars, basicVars, adminVars, emoteVars, radioVars>>
notRadio == <<rawVars, basicVars, adminVars, emoteVars, managerVars>>

\* The tasks that call send_raw_command.
Callers == DOMAIN pc

\* --------------------------------------------------------- dictionaries --
Put(d, k, v) == [x \in DOMAIN d \cup {k} |-> IF x = k THEN v ELSE d[x]]
Del(d, k) == [x \in DOMAIN d \ {k} |-> d[x]]
Max(a, b) == IF a >= b THEN a ELSE b

\* A frame on the wire: a JSON envelope with its Identifier, or text that is
\* not JSON.
Frame(j, i) == [json |-> j, id |-> i]

\* What the last step handed to the outside; every action sets ev.
\*   rc, ret  : the caller to which send_raw_command returned, and the value
\*   fid      : the Identifier of the decodable frame _process_response handled
\*   to       : the caller whose future that frame fulfilled (0: none)
\*   passive  : the frame was reported as an unexpected response
NoEv == [rc |-> 0, ret |-> "", fid |-> -1, to |-> 0, passive |-> FALSE]


\* ------------------------------------------------------------ strings ----
\* Text is a TLA+ string: Len, SubSeq and \o are what len(), slicing and + are
\* in the code.

\* The whitespace str.strip() and the regex class \s remove.
Whitespace == {" "}

\* s[i], or "" outside the string.
CharAt(s, i) == IF 1 <= i /\ i <= Len(s) THEN SubSeq(s, i, i) ELSE ""

\* s[i:]
From(s, i) == SubSeq(s, i, Len(s))

RECURSIVE LStrip(_)
LStrip(s) == IF CharAt(s, 1) \in Whitespace THEN LStrip(From(s, 2)) ELSE s

RECURSIVE RStrip(_)
RStrip(s) ==
    IF CharAt(s, Len(s)) \in Whitespace THEN RStrip(SubSeq(s, 1, Len(s) - 1)) ELSE s

\* str.strip()
Strip(s) == RStrip(LStrip(s))

\* str.startswith, str.endswith, and the operator "in" on strings.
StartsWith(s, p) == Len(s) >= Len(p) /\ SubSeq(s, 1, Len(p)) = p
EndsWith(s, p) == Len(s) >= Len(p) /\ SubSeq(s, Len(s) - Len(p) + 1, Len(s)) = p
Contains(s, p) == \E i \in 0..(Len(s) - Len(p)) : SubSeq(s, i + 1, i + Len(p)) = p

\* str.replace(old, new) for a non-empty old: the leftmost occurrence is
\* replaced, then those in the rest.
RECURSIVE Replace(_, _, _)
Replace(s, old, new) ==
    LET hits == {i \in 1..(Len(s) - Len(old) + 1) : SubSeq(s, i, i + Len(old) - 1) = old}
        first == CHOOSE i \in hits : \A j \in hits : i <= j
    IN  IF hits = {} THEN s
        ELSE SubSeq(s, 1, first - 1) \o new \o Replace(From(s, first + Len(old)), old, new)

\* line.split('=', 1)[1] for a line that contains "=".
RECURSIVE AfterEquals(_)
AfterEquals(s) ==
    IF s = "" THEN "" ELSE IF CharAt(s, 1) = "=" THEN From(s, 2) ELSE AfterEquals(From(s, 2))

\* The characters of the model's texts in the order of their code points,
\* which is the order sorted() compares strings by.
CodePoints ==
    " \"#(),-.0123456789=ABCDEFGHIJKLMNOPQRSTUVWXYZ[]_abcdefghijklmnopqrstuvwxyz{}"

Ord(ch) == CHOOSE i \in 1..Len(CodePoints) : CharAt(CodePoints, i) = ch

\* a < b for strings: at the first index where they differ, a has ended or
\* has the smaller character.
StrLess(a, b) ==
    \E i \in 1..Len(b) :
        /\ i <= Len(a) + 1
        /\ SubSeq(a, 1, i - 1) = SubSeq(b, 1, i - 1)
        /\ i = Len(a) + 1 \/ Ord(CharAt(a, i)) < Ord(CharAt(b, i))

\* int(s): the value of a decimal numeral with an optional sign, blanks
\* around it and single underscores between its digits; the field err stands
\* for ValueError.
Digits == "0123456789"
IsDigit(ch) == ch # "" /\ Contains(Digits, ch)
DigitValue(ch) == (CHOOSE i \in 1..10 : CharAt(Digits, i) = ch) - 1

RECURSIVE Decimal(_, _)
Decimal(s, acc) ==
    IF s = "" THEN [err |-> FALSE, val |-> acc]
    ELSE IF IsDigit(CharAt(s, 1)) THEN Decimal(From(s, 2), 10 * acc + DigitValue(CharAt(s, 1)))
    ELSE IF CharAt(s, 1) = "_" /\ IsDigit(CharAt(s, 2)) THEN Decimal(From(s, 2), acc)
    ELSE [err |-> TRUE, val |-> 0]

ParseInt(s) ==
    LET t == Strip(s)
        neg == CharAt(t, 1) = "-"
        body == IF CharAt(t, 1) \in {"-", "+"} THEN From(t, 2) ELSE t
        d == Decimal(body, 0)
    IN  IF ~IsDigit(CharAt(body, 1)) \/ d.err THEN [err |-> TRUE, val |-> 0]
        ELSE [err |-> FALSE, val |-> IF neg THEN 0 - d.val ELSE d.val]

\* ------------------------------------------------------ RawRCONClient ----
InitRawFor(cs) ==
    /\ websocket = 0
    /\ is_connected = FALSE
    /\ command_counter = 1
    /\ pending_responses = << >>
    /\ receive_task = 0
    /\ pc = [c \in cs |-> "idle"]
    /\ cid = [c \in cs |-> 0]
    /\ fut = [c \in cs |-> "none"]
    /\ cws = [c \in cs |-> 0]
    /\ rtask = [t \in Conns |-> "none"]
    /\ rws = [t \in Conns |-> 0]
    /\ boot = "connecting"
    /\ close_pc = "idle"
    /\ closes = 0
    /\ conn = [g \in Conns |-> "unused"]
    /\ written = [g \in Conns |-> {}]
    /\ maxAlloc = 0
    /\ seen = {}
    /\ doneIds = {}
    /\ atClose = {}
    /\ dropped = FALSE
    /\ ev = NoEv

InitRaw == InitRawFor(1..NumCallers)

\* The connection a successful websockets.connect() opens.
NextConn == CHOOSE g \in Conns : conn[g] = "unused" /\ \A h \in Conns : h < g => conn[h] # "unused"

CanConnect == \E g \in Conns : conn[g] = "unused"

\* Connection g is the session's websocket or a receive task waits on it.
Live(g, ws, tasks, wss) == ws = g \/ \E t \in Conns : tasks[t] = "recv" /\ wss[t] = g

\* What the server knows of the connections the session still refers to; a
\* connection nothing reads any more can deliver no frame.
Sweep(wr, ws, tasks, wss) == [g \in Conns |-> IF Live(g, ws, tasks, wss) THEN wr[g] ELSE {}]

\* The loop test of _receive_messages and the recv() that follows it, run by
\* task t: the task ends when the session is not connected; recv() raises when
\* another task already waits in recv() on the same websocket, which the outer
\* handler turns into is_connected = False.
LoopHead(t, ic, ws, tasks, wss) ==
    IF ic /\ ws # 0
    THEN IF \E u \in Conns \ {t} : tasks[u] = "recv" /\ wss[u] = ws
         THEN [st |-> "done", ws |-> 0, ic |-> FALSE]
         ELSE [st |-> "recv", ws |-> ws, ic |-> ic]
    ELSE [st |-> "done", ws |-> 0, ic |-> ic]

\* A receive path that fulfils the future of a matched frame and reports the
\* frame as unexpected too.
ProcessResponseBoth(f, pend, futs) ==
    IF ~f.json
    THEN [pend |-> pend, futs |-> futs, to |-> 0, passive |-> FALSE]
    ELSE IF f.id \in DOMAIN pend
         THEN [pend |-> Del(pend, f.id),
               futs |-> IF futs[pend[f.id]] = "pending"
                        THEN [futs EXCEPT ![pend[f.id]] = "result"] ELSE futs,
               to |-> IF futs[pend[f.id]] = "pending" THEN pend[f.id] ELSE 0,
               passive |-> TRUE]
         ELSE [pend |-> pend, futs |-> futs, to |-> 0, passive |-> TRUE]

\* _process_response on frame f: the pending map and the futures afterwards,
\* the caller whose future was fulfilled (0: none), and whether the frame was
\* reported as unexpected.
ProcessResponse(f, pend, futs) ==
    IF ~f.json
    THEN [pend |-> pend, futs |-> futs, to |-> 0, passive |-> FALSE]
    ELSE IF f.id \in DOMAIN pend
         THEN [pend |-> Del(pend, f.id),
               futs |-> IF futs[pend[f.id]] = "pending"
                        THEN [futs EXCEPT ![pend[f.id]] = "result"] ELSE futs,
               to |-> IF futs[pend[f.id]] = "pending" THEN pend[f.id] ELSE 0,
               passive |-> FALSE]
         ELSE [pend |-> pend, futs |-> futs, to |-> 0, passive |-> TRUE]

\* connect() succeeding: the fields it assigns and the receive task it creates.
ConnectEffect ==
    /\ conn' = [conn EXCEPT ![NextConn] = "open"]
    /\ websocket' = NextConn
    /\ receive_task' = NextConn
    /\ rtask' = [rtask EXCEPT ![NextConn] = "new"]

\* A return of send_raw_command to caller c with value r.
Return(c, r) == [NoEv EXCEPT !.rc = c, !.ret = r]

\* send_raw_command from "current_id = self.command_counter" to the await of
\* wait_for, for a session whose websocket is ws, whose connections are cn and
\* whose written commands are wr: the write raises unless ws is an open
\* connection.
SendBody(c, ws, ic, cn, wr) ==
    /\ maxAlloc' = Max(maxAlloc, command_counter)
    /\ seen' = seen \ {c}
    /\ IF ws # 0 /\ cn[ws] = "open"
       THEN /\ cid' = [cid EXCEPT ![c] = command_counter]
            /\ pending_responses' = Put(pending_responses, command_counter, c)
            /\ fut' = [fut EXCEPT ![c] = "pending"]
            /\ cws' = [cws EXCEPT ![c] = ws]
            /\ written' = [wr EXCEPT ![ws] = @ \cup {command_counter}]
            /\ pc' = [pc EXCEPT ![c] = "waiting"]
            /\ is_connected' = ic
            /\ atClose' = atClose
            /\ ev' = NoEv
       ELSE /\ cid' = [cid EXCEPT ![c] = 0]
            /\ pending_responses' = Del(pending_responses, command_counter)
            /\ fut' = [fut EXCEPT ![c] = "none"]
            /\ cws' = [cws EXCEPT ![c] = 0]
            /\ written' = wr
            /\ pc' = [pc EXCEPT ![c] = "idle"]
            /\ is_connected' = FALSE
            /\ atClose' = atClose \ {c}
            /\ ev' = Return(c, "error")
    /\ UNCHANGED <<command_counter, doneIds, dropped>>

\* send_raw_command called on a session that is connected.
SendConnected(c) ==
    /\ pc[c] = "idle"
    /\ command_counter <= MaxId
    /\ is_connected /\ websocket # 0
    /\ SendBody(c, websocket, is_connected, conn, written)
    /\ UNCHANGED <<websocket, receive_task, rtask, rws, boot, close_pc, closes, conn>>
    /\ UNCHANGED notRaw

\* send_raw_command called on a session that is not connected: await connect().
SendDisconnected(c) ==
    /\ pc[c] = "idle"
    /\ command_counter <= MaxId
    /\ ~is_connected \/ websocket = 0
    /\ pc' = [pc EXCEPT ![c] = "connecting"]
    /\ ev' = NoEv
    /\ UNCHANGED <<websocket, is_connected, command_counter, pending_responses,
                   receive_task, cid, fut, rtask, rws, boot, close_pc, closes,
                   conn, written, maxAlloc, seen, doneIds, atClose>>
    /\ UNCHANGED <<cws, dropped>>
    /\ UNCHANGED notRaw

\* connect() inside send_raw_command succeeds; the send goes on.
SendConnectOk(c) ==
    /\ pc[c] = "connecting"
    /\ CanConnect
    /\ ConnectEffect
    /\ SendBody(c, NextConn, TRUE, conn', Sweep(written, NextConn, rtask, rws))
    /\ UNCHANGED <<rws, boot, close_pc, closes>>
    /\ UNCHANGED notRaw

\* A send that goes on to the write after connect() failed.
SendConnectFailGoesOn(c) ==
    /\ pc[c] = "connecting"
    /\ SendBody(c, websocket, FALSE, conn, written)
    /\ UNCHANGED <<websocket, receive_task, rtask, rws, boot, close_pc, closes, conn>>
    /\ UNCHANGED notRaw

\* connect() inside send_raw_command fails.
SendConnectFail(c) ==
    /\ pc[c] = "connecting"
    /\ is_connected' = FALSE
    /\ pc' = [pc EXCEPT ![c] = "idle"]
    /\ ev' = Return(c, "connfail")
    /\ UNCHANGED <<websocket, command_counter, pending_responses, receive_task,
                   cid, fut, rtask, rws, boot, close_pc, closes, conn,
                   written, maxAlloc, seen, doneIds, atClose>>
    /\ UNCHANGED <<cws, dropped>>
    /\ UNCHANGED notRaw

\* The timeout of wait_for elapses before the future has a result: wait_for
\* cancels the future; the caller is resumed with TimeoutError in a later step.
TimeoutFire(c) ==
    /\ pc[c] = "waiting"
    /\ fut[c] = "pending"
    /\ fut' = [fut EXCEPT ![c] = "cancelled"]
    /\ pc' = [pc EXCEPT ![c] = "timedout"]
    /\ doneIds' = doneIds \cup {cid[c]}
    /\ ev' = NoEv
    /\ UNCHANGED <<websocket, is_connected, command_counter, pending_responses,
                   receive_task, cid, rtask, rws, boot, close_pc, closes, conn,
                   written, maxAlloc, seen, atClose>>
    /\ UNCHANGED <<cws, dropped>>
    /\ UNCHANGED notRaw

\* The response to the request of caller c can still arrive and fulfil its
\* future: the connection it was written on is open, the pending map holds
\* the future under its Identifier, and a receive task reads the connection
\* or is about to.
Deliverable(c) ==
    /\ cws[c] # 0
    /\ conn[cws[c]] = "open"
    /\ cid[c] \in DOMAIN pending_responses
    /\ pending_responses[cid[c]] = c
    /\ \E t \in Conns : \/ rtask[t] = "recv" /\ rws[t] = cws[c]
                        \/ rtask[t] = "new" /\ is_connected /\ websocket = cws[c]

\* The timeout of wait_for against a server that answers every command well
\* within the 10 s: it elapses only for a request whose response cannot
\* arrive any more.
TimeoutUndelivered(c) ==
    /\ ~Deliverable(c)
    /\ TimeoutFire(c)

\* The caller is resumed with the result of its future.
ResumeResult(c) ==
    /\ pc[c] = "waiting"
    /\ fut[c] = "result"
    /\ command_counter' = command_counter + 1
    /\ pc' = [pc EXCEPT ![c] = "idle"]
    /\ fut' = [fut EXCEPT ![c] = "none"]
    /\ cid' = [cid EXCEPT ![c] = 0]
    /\ cws' = [cws EXCEPT ![c] = 0]
    /\ seen' = seen \ {c}
    /\ atClose' = atClose \ {c}
    /\ ev' = Return(c, "ok")
    /\ UNCHANGED <<websocket, is_connected, pending_responses, receive_task,
                   rtask, rws, boot, close_pc, closes, conn, written,
                   maxAlloc, doneIds>>
    /\ UNCHANGED dropped
    /\ UNCHANGED notRaw

\* The caller is resumed with TimeoutError: "del self.pending_responses[current_id]"
\* raises KeyError when the key is gone, which the outer handler catches.
ResumeTimeout(c) ==
    /\ pc[c] = "timedout"
    /\ pc' = [pc EXCEPT ![c] = "idle"]
    /\ fut' = [fut EXCEPT ![c] = "none"]
    /\ cid' = [cid EXCEPT ![c] = 0]
    /\ cws' = [cws EXCEPT ![c] = 0]
    /\ seen' = seen \ {c}
    /\ atClose' = atClose \ {c}
    /\ IF cid[c] \in DOMAIN pending_responses
       THEN /\ pending_responses' = Del(pending_responses, cid[c])
            /\ command_counter' = command_counter + 1
            /\ is_connected' = is_connected
            /\ ev' = Return(c, "timeout")
       ELSE /\ pending_responses' = pending_responses
            /\ command_counter' = command_counter
            /\ is_connected' = FALSE
            /\ ev' = Return(c, "error")
    /\ UNCHANGED <<websocket, receive_task, rtask, rws, boot, close_pc,
                   closes, conn, written, maxAlloc, doneIds>>
    /\ UNCHANGED dropped
    /\ UNCHANGED notRaw

\* on_ready: connect() succeeds.
BootConnectOk ==
    /\ boot = "connecting"
    /\ CanConnect
    /\ ConnectEffect
    /\ is_connected' = TRUE
    /\ boot' = "done"
    /\ written' = Sweep(written, NextConn, rtask, rws)
    /\ ev' = NoEv
    /\ UNCHANGED <<command_counter, pending_responses, pc, cid, fut, rws, close_pc,
                   closes, maxAlloc, seen, doneIds, atClose>>
    /\ UNCHANGED <<cws, dropped>>
    /\ UNCHANGED notRaw

\* on_ready: connect() fails.
BootConnectFail ==
    /\ boot = "connecting"
    /\ is_connected' = FALSE
    /\ boot' = "done"
    /\ ev' = NoEv
    /\ UNCHANGED <<websocket, command_counter, pending_responses, receive_task, pc,
                   cid, fut, rtask, rws, close_pc, closes, conn, written,
                   maxAlloc, seen, doneIds, atClose>>
    /\ UNCHANGED <<cws, dropped>>
    /\ UNCHANGED notRaw

\* Task t goes through the loop test: its state, the session's is_connected
\* and what the server still can deliver afterwards.
Iterate(t) ==
    LET n == LoopHead(t, is_connected, websocket, rtask, rws) IN
    /\ rtask' = [rtask EXCEPT ![t] = n.st]
    /\ rws' = [rws EXCEPT ![t] = n.ws]
    /\ is_connected' = n.ic
    /\ written' = Sweep(written, websocket, rtask', rws')

\* A created _receive_messages task runs for the first time.
RecvStart(t) ==
    /\ rtask[t] = "new"
    /\ Iterate(t)
    /\ ev' = NoEv
    /\ UNCHANGED <<websocket, command_counter, pending_responses, receive_task, pc,
                   cid, fut, boot, close_pc, closes, conn, maxAlloc, seen,
                   doneIds, atClose>>
    /\ UNCHANGED <<cws, dropped>>
    /\ UNCHANGED notRaw

\* The frames the server may send on connection g: the reply to a command
\* written on g, an unsolicited message (Identifier 0), or text that is not
\* JSON.
ServerFrames(g) ==
    IF g \in Conns
    THEN {Frame(TRUE, i) : i \in written[g] \cup {0}} \cup {Frame(FALSE, 0)}
    ELSE {}

\* recv() returns frame f: _process_response, then the next loop iteration.
RecvFrame(t, f) ==
    /\ rtask[t] = "recv"
    /\ conn[rws[t]] = "open"
    /\ LET r == ProcessResponse(f, pending_responses, fut)
       IN /\ pending_responses' = r.pend
          /\ fut' = r.futs
          /\ seen' = seen \cup {c \in Callers : f.json /\ pc[c] = "waiting" /\ cid[c] = f.id}
          /\ doneIds' = IF r.to # 0 THEN doneIds \cup {f.id} ELSE doneIds
          /\ ev' = [NoEv EXCEPT !.fid = IF f.json THEN f.id ELSE -1,
                                !.to = r.to, !.passive = r.passive]
    /\ Iterate(t)
    /\ UNCHANGED <<websocket, command_counter, receive_task, pc, cid, boot,
                   close_pc, closes, conn, maxAlloc, atClose>>
    /\ UNCHANGED <<cws, dropped>>
    /\ UNCHANGED notRaw

\* wait_for(recv(), 1.0) times out: the next loop iteration.
RecvTimeout(t) ==
    /\ rtask[t] = "recv"
    /\ conn[rws[t]] = "open"
    /\ Iterate(t)
    /\ ev' = NoEv
    /\ UNCHANGED <<websocket, command_counter, pending_responses, receive_task, pc,
                   cid, fut, boot, close_pc, closes, conn, maxAlloc, seen,
                   doneIds, atClose>>
    /\ UNCHANGED <<cws, dropped>>
    /\ UNCHANGED notRaw

\* recv() raises ConnectionClosed: the task marks the session disconnected
\* and ends.
RecvClosed(t) ==
    /\ rtask[t] = "recv"
    /\ conn[rws[t]] = "closed"
    /\ rtask' = [rtask EXCEPT ![t] = "done"]
    /\ rws' = [rws EXCEPT ![t] = 0]
    /\ is_connected' = FALSE
    /\ written' = Sweep(written, websocket, rtask', rws')
    /\ ev' = NoEv
    /\ UNCHANGED <<websocket, command_counter, pending_responses, receive_task, pc,
                   cid, fut, boot, close_pc, closes, conn, maxAlloc, seen,
                   doneIds, atClose>>
    /\ UNCHANGED <<cws, dropped>>
    /\ UNCHANGED notRaw

\* The tasks after receive_task.cancel().
Cancelled(tasks, wss, t) ==
    [st |-> IF t # 0 /\ tasks[t] \in {"new", "recv"} THEN [tasks EXCEPT ![t] = "done"] ELSE tasks,
     ws |-> IF t # 0 THEN [wss EXCEPT ![t] = 0] ELSE wss]

\* close() up to its await of websocket.close(); it returns at once when the
\* websocket is None.
CloseCall ==
    /\ close_pc = "idle"
    /\ closes < MaxClose
    /\ closes' = closes + 1
    /\ is_connected' = FALSE
    /\ rtask' = Cancelled(rtask, rws, receive_task).st
    /\ rws' = Cancelled(rtask, rws, receive_task).ws
    /\ atClose' = {c \in Callers : pc[c] \in {"waiting", "timedout"}}
    /\ conn' = IF websocket # 0 THEN [conn EXCEPT ![websocket] = "closed"] ELSE conn
    /\ written' = Sweep(IF websocket # 0 THEN [written EXCEPT ![websocket] = {}] ELSE written,
                        websocket, rtask', rws')
    /\ close_pc' = IF websocket # 0 THEN "closing" ELSE "idle"
    /\ ev' = NoEv
    /\ UNCHANGED <<websocket, command_counter, pending_responses, receive_task, pc,
                   cid, fut, boot, maxAlloc, seen, doneIds>>
    /\ UNCHANGED <<cws, dropped>>
    /\ UNCHANGED notRaw

\* close() after websocket.close() returned: "self.websocket = None".
CloseFinish ==
    /\ close_pc = "closing"
    /\ websocket' = 0
    /\ close_pc' = "idle"
    /\ written' = Sweep(written, 0, rtask, rws)
    /\ ev' = NoEv
    /\ UNCHANGED <<is_connected, command_counter, pending_responses, receive_task,
                   pc, cid, fut, rtask, rws, boot, closes, conn, maxAlloc, seen,
                   doneIds, atClose>>
    /\ UNCHANGED <<cws, dropped>>
    /\ UNCHANGED notRaw

\* A connection the session refers to drops.
Drop(g) ==
    /\ conn[g] = "open"
    /\ Live(g, websocket, rtask, rws)
    /\ conn' = [conn EXCEPT ![g] = "closed"]
    /\ written' = [written EXCEPT ![g] = {}]
    /\ dropped' = (dropped \/ Cardinality({c \in Callers : pc[c] = "waiting" /\ fut[c] = "pending"
                                                          /\ cws[c] = g}) >= DropPending)
    /\ ev' = NoEv
    /\ UNCHANGED <<websocket, is_connected, command_counter, pending_responses,
                   receive_task, pc, cid, fut, cws, rtask, rws, boot, close_pc, closes,
                   maxAlloc, seen, doneIds, atClose>>
    /\ UNCHANGED notRaw

NextRaw ==
    \/ BootConnectOk
    \/ BootConnectFail
    \/ \E c \in Callers : SendConnected(c)
    \/ \E c \in Callers : SendDisconnected(c)
    \/ \E c \in Callers : SendConnectOk(c)
    \/ \E c \in Callers : SendConnectFail(c)
    \/ \E c \in Callers : TimeoutFire(c)
    \/ \E c \in Callers : ResumeResult(c)
    \/ \E c \in Callers : ResumeTimeout(c)
    \/ \E t \in Conns : RecvStart(t)
    \/ \E t \in Conns : \E f \in ServerFrames(rws[t]) : RecvFrame(t, f)
    \/ \E t \in Conns : RecvTimeout(t)
    \/ \E t \in Conns : RecvClosed(t)
    \/ CloseCall
    \/ CloseFinish
    \/ \E g \in Conns : Drop(g)

\* ---------------------------------------------- RCON (Basic_Console) ----
\* What send() returned in the last step: ret is "message" or "none", cmd the
\* Identifier of the command, fid the Identifier of the frame taken as its
\* response (-1: no decodable frame).
NoRconEv == [ret |-> "", cmd |-> 0, fid |-> -1]

InitBasic ==
    /\ rcon_websocket = 0
    /\ rcon_command_counter = 1
    /\ rcon_pc = "idle"
    /\ rcon_id = 0
    /\ rcon_conn = [g \in Conns |-> "unused"]
    /\ rcon_written = {}
    /\ rcon_closes = 0
    /\ rcon_ev = NoRconEv

RconNextConn ==
    CHOOSE g \in Conns : rcon_conn[g] = "unused" /\ \A h \in Conns : h < g => rcon_conn[h] # "unused"

\* connect() succeeds: the handle refers to a new connection.
RconConnectOk ==
    /\ rcon_pc = "idle"
    /\ \E g \in Conns : rcon_conn[g] = "unused"
    /\ rcon_conn' = [rcon_conn EXCEPT ![RconNextConn] = "open"]
    /\ rcon_websocket' = RconNextConn
    /\ rcon_written' = {}
    /\ rcon_ev' = NoRconEv
    /\ UNCHANGED <<rcon_command_counter, rcon_pc, rcon_id, rcon_closes>>
    /\ UNCHANGED notBasic

\* connect() fails: the exception is caught and nothing is assigned.
RconConnectFail ==
    /\ rcon_pc = "idle"
    /\ rcon_ev' = NoRconEv
    /\ UNCHANGED <<rcon_websocket, rcon_command_counter, rcon_pc, rcon_id, rcon_conn,
                   rcon_written, rcon_closes>>
    /\ UNCHANGED notBasic

\* send() up to its await of recv(): None without a websocket or when the
\* write raises on a closed connection.
RconSend ==
    /\ rcon_pc = "idle"
    /\ rcon_command_counter <= MaxId
    /\ IF rcon_websocket # 0 /\ rcon_conn[rcon_websocket] = "open"
       THEN /\ rcon_id' = rcon_command_counter
            /\ rcon_written' = rcon_written \cup {rcon_command_counter}
            /\ rcon_pc' = "recv"
            /\ rcon_ev' = NoRconEv
       ELSE /\ rcon_ev' = [NoRconEv EXCEPT !.ret = "none",
                                           !.cmd = IF rcon_websocket # 0 THEN rcon_command_counter ELSE 0]
            /\ UNCHANGED <<rcon_id, rcon_written, rcon_pc>>
    /\ UNCHANGED <<rcon_websocket, rcon_command_counter, rcon_conn, rcon_closes>>
    /\ UNCHANGED notBasic

\* The frames the server may send: the reply to a command written on the
\* connection, an unsolicited message (Identifier 0), or text that is not JSON.
RconFrames == {Frame(TRUE, i) : i \in rcon_written \cup {0}} \cup {Frame(FALSE, 0)}

\* recv() returns frame f, the next frame on the connection: its text is the
\* result of send(); json.loads raises on text that is not JSON.
RconRecvFrame(f) ==
    /\ rcon_pc = "recv"
    /\ rcon_conn[rcon_websocket] = "open"
    /\ rcon_pc' = "idle"
    /\ rcon_id' = 0
    /\ IF f.json
       THEN /\ rcon_command_counter' = rcon_command_counter + 1
            /\ rcon_ev' = [ret |-> "message", cmd |-> rcon_id, fid |-> f.id]
       ELSE /\ rcon_command_counter' = rcon_command_counter
            /\ rcon_ev' = [ret |-> "none", cmd |-> rcon_id, fid |-> -1]
    /\ UNCHANGED <<rcon_websocket, rcon_conn, rcon_written, rcon_closes>>
    /\ UNCHANGED notBasic

\* recv() raises on a closed connection: send() returns None.
RconRecvClosed ==
    /\ rcon_pc = "recv"
    /\ rcon_conn[rcon_websocket] = "closed"
    /\ rcon_pc' = "idle"
    /\ rcon_id' = 0
    /\ rcon_ev' = [ret |-> "none", cmd |-> rcon_id, fid |-> -1]
    /\ UNCHANGED <<rcon_websocket, rcon_command_counter, rcon_conn, rcon_written,
                   rcon_closes>>
    /\ UNCHANGED notBasic

\* close(): closes the websocket and sets it to None; nothing without one.
RconClose ==
    /\ rcon_pc = "idle"
    /\ rcon_closes < MaxClose
    /\ rcon_closes' = rcon_closes + 1
    /\ rcon_conn' = IF rcon_websocket # 0
                    THEN [rcon_conn EXCEPT ![rcon_websocket] = "closed"] ELSE rcon_conn
    /\ rcon_websocket' = 0
    /\ rcon_written' = {}
    /\ rcon_ev' = NoRconEv
    /\ UNCHANGED <<rcon_command_counter, rcon_pc, rcon_id>>
    /\ UNCHANGED notBasic

\* The connection of the websocket drops.
RconDrop ==
    /\ rcon_websocket # 0
    /\ rcon_conn[rcon_websocket] = "open"
    /\ rcon_conn' = [rcon_conn EXCEPT ![rcon_websocket] = "closed"]
    /\ rcon_written' = {}
    /\ rcon_ev' = NoRconEv
    /\ UNCHANGED <<rcon_websocket, rcon_command_counter, rcon_pc, rcon_id, rcon_closes>>
    /\ UNCHANGED notBasic

NextBasic ==
    \/ RconConnectOk
    \/ RconConnectFail
    \/ RconSend
    \/ \E f \in RconFrames : RconRecvFrame(f)
    \/ RconRecvClosed
    \/ RconClose
    \/ RconDrop

\* --------------------------------------------- RCONListener (Admin) ----
\* The frame process_rcon_message finished with in the last step: its
\* Identifier and cleaned text, whether the Identifier was a key of the pending
\* map when the processing began, and whether a reply went to the channel;
\* or, when the step was a timeout of recv(), what became of the ping ("ok",
\* "failed").
NoAdminEv == [fid |-> -1, text |-> "", matched |-> FALSE, replied |-> FALSE, ping |-> ""]

\* The Message texts the server sends, and Identifier 1 of the envelope
\* connect() writes.
Texts == {"", " ", "ok"}
InitIdentifier == 1

\* message.replace("\u0000", "").strip()
Clean(t) == IF t = " " THEN "" ELSE t

AdminCallers == 1..NumCallers

InitAdmin ==
    /\ a_websocket = 0
    /\ a_is_connected = FALSE
    /\ a_command_counter = 1
    /\ a_pending_responses = << >>
    /\ a_listening = FALSE
    /\ a_boot = "connecting"
    /\ a_lpc = "off"
    /\ a_lws = 0
    /\ a_frame = 0
    /\ a_spc = [c \in AdminCallers |-> "idle"]
    /\ a_conn = [g \in Conns |-> "unused"]
    /\ a_written = [g \in Conns |-> {}]
    /\ a_ev = NoAdminEv

AdminNextConn ==
    CHOOSE g \in Conns : a_conn[g] = "unused" /\ \A h \in Conns : h < g => a_conn[h] # "unused"

AdminCanConnect == \E g \in Conns : a_conn[g] = "unused"

\* What the server still can deliver: the commands written on the websocket
\* of the session and on the one the listening task reads.
AdminSweep(wr, ws, lpc, lws) ==
    [g \in Conns |-> IF ws = g \/ (lpc = "recv" /\ lws = g) THEN wr[g] ELSE {}]

\* connect() succeeding, the initial envelope included.
AdminConnectEffect ==
    /\ a_conn' = [a_conn EXCEPT ![AdminNextConn] = "open"]
    /\ a_websocket' = AdminNextConn
    /\ a_is_connected' = TRUE

\* connect() raising and its handler leaving the session as it found it.
AdminConnectRaisesUnmarked ==
    /\ UNCHANGED <<a_websocket, a_is_connected, a_conn>>
    /\ a_written' = a_written

\* connect() raising: websockets.connect raised and the websocket is the old
\* one, or the write of the initial envelope raised on the new websocket, which
\* stays the websocket of the session; the handler marks the session
\* disconnected.
AdminConnectRaises ==
    /\ a_is_connected' = FALSE
    /\ \/ /\ UNCHANGED <<a_websocket, a_conn>>
          /\ a_written' = a_written
       \/ /\ AdminCanConnect
          /\ a_websocket' = AdminNextConn
          /\ a_conn' = [a_conn EXCEPT ![AdminNextConn] = "closed"]
          /\ a_written' = AdminSweep(a_written, AdminNextConn, a_lpc, a_lws)

\* on_ready: connect() succeeds and the listening task is created.
AdminBootOk ==
    /\ a_boot = "connecting"
    /\ AdminCanConnect
    /\ AdminConnectEffect
    /\ a_written' = [AdminSweep(a_written, AdminNextConn, a_lpc, a_lws)
                        EXCEPT ![AdminNextConn] = {InitIdentifier}]
    /\ a_boot' = "done"
    /\ a_lpc' = "top"
    /\ a_ev' = NoAdminEv
    /\ UNCHANGED <<a_command_counter, a_pending_responses, a_listening, a_lws,
                   a_frame, a_spc>>
    /\ UNCHANGED notAdmin

\* on_ready: connect() fails; no listening task is created.
AdminBootFail ==
    /\ a_boot = "connecting"
    /\ AdminConnectRaises
    /\ a_boot' = "done"
    /\ a_ev' = NoAdminEv
    /\ UNCHANGED <<a_command_counter, a_pending_responses, a_listening,
                   a_lpc, a_lws, a_frame, a_spc>>
    /\ UNCHANGED notAdmin

\* listen_forever from its entry, or from the head of its loop, to the await
\* of recv() on websocket ws: without a websocket the generator returns (at
\* entry) or raises (in the loop), and listen_to_rcon starts over.
Listen(ws, ic, inLoop) ==
    IF ws # 0
    THEN [pc |-> "recv", lws |-> ws, listening |-> TRUE, ic |-> ic]
    ELSE [pc |-> "top", lws |-> 0, listening |-> FALSE, ic |-> IF inLoop THEN FALSE ELSE ic]

\* listen_to_rcon at the head of its loop: reconnect() (close(), then
\* connect()) when the session is not connected, else listen_forever().
ListenTop ==
    /\ a_lpc = "top"
    /\ IF ~a_is_connected
       THEN /\ a_listening' = FALSE
            /\ a_lpc' = IF a_websocket # 0 THEN "closing" ELSE "connecting"
            /\ a_conn' = IF a_websocket # 0
                         THEN [a_conn EXCEPT ![a_websocket] = "closed"] ELSE a_conn
            /\ a_written' = IF a_websocket # 0
                            THEN [a_written EXCEPT ![a_websocket] = {}] ELSE a_written
            /\ UNCHANGED <<a_lws, a_is_connected>>
       ELSE /\ a_listening' = Listen(a_websocket, a_is_connected, FALSE).listening
            /\ a_lpc' = Listen(a_websocket, a_is_connected, FALSE).pc
            /\ a_lws' = Listen(a_websocket, a_is_connected, FALSE).lws
            /\ UNCHANGED <<a_conn, a_written, a_is_connected>>
    /\ a_ev' = NoAdminEv
    /\ UNCHANGED <<a_websocket, a_command_counter, a_pending_responses, a_boot,
                   a_frame, a_spc>>
    /\ UNCHANGED notAdmin

\* close() after websocket.close() returned, then reconnect() goes on to
\* connect().
ListenCloseDone ==
    /\ a_lpc = "closing"
    /\ a_websocket' = 0
    /\ a_is_connected' = FALSE
    /\ a_lpc' = "connecting"
    /\ a_written' = AdminSweep(a_written, 0, a_lpc', a_lws)
    /\ a_ev' = NoAdminEv
    /\ UNCHANGED <<a_command_counter, a_pending_responses, a_listening, a_boot,
                   a_lws, a_frame, a_spc, a_conn>>
    /\ UNCHANGED notAdmin

\* reconnect(): connect() succeeds; listen_to_rcon enters listen_forever().
ListenConnectOk ==
    /\ a_lpc = "connecting"
    /\ AdminCanConnect
    /\ AdminConnectEffect
    /\ a_listening' = TRUE
    /\ a_lpc' = "recv"
    /\ a_lws' = AdminNextConn
    /\ a_written' = [AdminSweep(a_written, AdminNextConn, a_lpc', a_lws')
                        EXCEPT ![AdminNextConn] = {InitIdentifier}]
    /\ a_ev' = NoAdminEv
    /\ UNCHANGED <<a_command_counter, a_pending_responses, a_boot, a_frame, a_spc>>
    /\ UNCHANGED notAdmin

\* reconnect(): connect() fails; listen_to_rcon sleeps.
ListenConnectFail ==
    /\ a_lpc = "connecting"
    /\ AdminConnectRaises
    /\ a_lpc' = "sleep"
    /\ a_ev' = NoAdminEv
    /\ UNCHANGED <<a_command_counter, a_pending_responses, a_listening,
                   a_boot, a_lws, a_frame, a_spc>>
    /\ UNCHANGED notAdmin

\* asyncio.sleep(5) of listen_to_rcon is over.
ListenWake ==
    /\ a_lpc = "sleep"
    /\ a_lpc' = "top"
    /\ a_ev' = NoAdminEv
    /\ UNCHANGED <<a_websocket, a_is_connected, a_command_counter,
                   a_pending_responses, a_listening, a_boot, a_lws, a_frame, a_spc,
                   a_conn, a_written>>
    /\ UNCHANGED notAdmin

\* The frames the server may send on connection g: a JSON envelope with the
\* Identifier of a command written on g or 0 (unsolicited) and any text, or
\* text that is not JSON.
AdminFrames(g) ==
    IF g \in Conns
    THEN {[json |-> TRUE, id |-> i, text |-> t] : i \in a_written[g] \cup {0}, t \in Texts}
            \cup {[json |-> FALSE, id |-> 0, text |-> "ok"]}
    ELSE {}

\* listen_forever goes round its loop after a frame or a timeout.
ListenAgain ==
    /\ a_listening' = Listen(a_websocket, a_is_connected, TRUE).listening
    /\ a_lpc' = Listen(a_websocket, a_is_connected, TRUE).pc
    /\ a_lws' = Listen(a_websocket, a_is_connected, TRUE).lws
    /\ a_is_connected' = Listen(a_websocket, a_is_connected, TRUE).ic
    /\ a_written' = AdminSweep(a_written, a_websocket, a_lpc', a_lws')

\* recv() returns frame f; _process_raw_message, then process_rcon_message up
\* to its return or to its await of discord_channel.send.  reply tells whether
\* format_command_response gives a text for the command type.
ListenRecvFrame(f, reply) ==
    /\ a_lpc = "recv"
    /\ a_conn[a_lws] = "open"
    /\ IF f.json /\ Clean(f.text) # "" /\ f.id \in DOMAIN a_pending_responses
       THEN IF reply
            THEN /\ a_frame' = f.id
                 /\ a_lpc' = "replying"
                 /\ a_ev' = NoAdminEv
                 /\ UNCHANGED <<a_pending_responses, a_listening, a_lws,
                                a_is_connected, a_written>>
            ELSE /\ a_pending_responses' = Del(a_pending_responses, f.id)
                 /\ a_ev' = [NoAdminEv EXCEPT !.fid = f.id, !.text = Clean(f.text),
                                                !.matched = TRUE]
                 /\ a_frame' = a_frame
                 /\ ListenAgain
       ELSE /\ a_ev' = IF f.json
                       THEN [NoAdminEv EXCEPT
                                !.fid = f.id, !.text = Clean(f.text),
                                !.matched = f.id \in DOMAIN a_pending_responses]
                       ELSE NoAdminEv
            /\ UNCHANGED <<a_pending_responses, a_frame>>
            /\ ListenAgain
    /\ UNCHANGED <<a_websocket, a_command_counter, a_boot, a_spc, a_conn>>
    /\ UNCHANGED notAdmin

\* discord_channel.send returned: the key is deleted and listen_forever goes
\* on.
ListenReplyOk ==
    /\ a_lpc = "replying"
    /\ a_frame \in DOMAIN a_pending_responses
    /\ a_pending_responses' = Del(a_pending_responses, a_frame)
    /\ a_ev' = [NoAdminEv EXCEPT !.fid = a_frame, !.text = "ok", !.matched = TRUE,
                                !.replied = TRUE]
    /\ a_frame' = 0
    /\ ListenAgain
    /\ UNCHANGED <<a_websocket, a_command_counter, a_boot, a_spc, a_conn>>
    /\ UNCHANGED notAdmin

\* discord_channel.send raised: the exception leaves process_rcon_message and
\* the generator; listen_to_rcon catches it and sleeps.
ListenReplyFail ==
    /\ a_lpc = "replying"
    /\ a_ev' = [NoAdminEv EXCEPT !.fid = a_frame, !.text = "ok", !.matched = TRUE]
    /\ a_frame' = 0
    /\ a_listening' = FALSE
    /\ a_lpc' = "sleep"
    /\ a_lws' = 0
    /\ a_written' = AdminSweep(a_written, a_websocket, a_lpc', a_lws')
    /\ UNCHANGED <<a_websocket, a_is_connected, a_command_counter,
                   a_pending_responses, a_boot, a_spc, a_conn>>
    /\ UNCHANGED notAdmin

\* The ping fails and listen_forever goes on as if it had succeeded.
ListenPingFailIgnored ==
    /\ a_lpc = "recv"
    /\ a_websocket = 0 \/ a_conn[a_websocket] = "closed"
    /\ ListenAgain
    /\ a_ev' = [NoAdminEv EXCEPT !.ping = "failed"]
    /\ UNCHANGED <<a_websocket, a_command_counter, a_pending_responses, a_boot,
                   a_frame, a_spc, a_conn>>
    /\ UNCHANGED notAdmin

\* No frame for 30 s and the ping raises (the session's websocket is closed,
\* or None): the session is marked disconnected and listen_forever ends.
ListenPingFail ==
    /\ a_lpc = "recv"
    /\ a_websocket = 0 \/ a_conn[a_websocket] = "closed"
    /\ a_is_connected' = FALSE
    /\ a_listening' = FALSE
    /\ a_lpc' = "top"
    /\ a_lws' = 0
    /\ a_written' = AdminSweep(a_written, a_websocket, a_lpc', a_lws')
    /\ a_ev' = [NoAdminEv EXCEPT !.ping = "failed"]
    /\ UNCHANGED <<a_websocket, a_command_counter, a_pending_responses, a_boot,
                   a_frame, a_spc, a_conn>>
    /\ UNCHANGED notAdmin

\* No frame for 30 s on the websocket recv() waits on: the ping on the
\* session's websocket, an open connection, succeeds.
ListenRecvTimeout ==
    /\ a_lpc = "recv"
    /\ a_conn[a_lws] = "open"
    /\ a_websocket # 0 /\ a_conn[a_websocket] = "open"
    /\ ListenAgain
    /\ a_ev' = [NoAdminEv EXCEPT !.ping = "ok"]
    /\ UNCHANGED <<a_websocket, a_command_counter, a_pending_responses, a_boot,
                   a_frame, a_spc, a_conn>>
    /\ UNCHANGED notAdmin

\* recv() raises ConnectionClosed: listen_forever ends.
ListenRecvClosed ==
    /\ a_lpc = "recv"
    /\ a_conn[a_lws] = "closed"
    /\ a_is_connected' = FALSE
    /\ a_listening' = FALSE
    /\ a_lpc' = "top"
    /\ a_lws' = 0
    /\ a_written' = AdminSweep(a_written, a_websocket, a_lpc', a_lws')
    /\ a_ev' = NoAdminEv
    /\ UNCHANGED <<a_websocket, a_command_counter, a_pending_responses, a_boot,
                   a_frame, a_spc, a_conn>>
    /\ UNCHANGED notAdmin

\* send_command from "current_id = self.command_counter" to the await of
\* websocket.send on websocket ws, with wr the commands written so far.
AdminSendBody(c, ws, cn, wr) ==
    /\ a_pending_responses' = Put(a_pending_responses, a_command_counter, c)
    /\ IF cn[ws] = "open"
       THEN /\ a_written' = [wr EXCEPT ![ws] = @ \cup {a_command_counter}]
            /\ a_spc' = [a_spc EXCEPT ![c] = "sent"]
       ELSE /\ a_written' = wr
            /\ a_spc' = [a_spc EXCEPT ![c] = "failed"]

\* send_command called on a connected session.
AdminSendConnected(c) ==
    /\ a_spc[c] = "idle"
    /\ a_command_counter <= MaxId
    /\ a_is_connected /\ a_websocket # 0
    /\ AdminSendBody(c, a_websocket, a_conn, a_written)
    /\ a_ev' = NoAdminEv
    /\ UNCHANGED <<a_websocket, a_is_connected, a_command_counter, a_listening,
                   a_boot, a_lpc, a_lws, a_frame, a_conn>>
    /\ UNCHANGED notAdmin

\* send_command called on a session that is not connected: await connect().
AdminSendDisconnected(c) ==
    /\ a_spc[c] = "idle"
    /\ a_command_counter <= MaxId
    /\ ~a_is_connected \/ a_websocket = 0
    /\ a_spc' = [a_spc EXCEPT ![c] = "connecting"]
    /\ a_ev' = NoAdminEv
    /\ UNCHANGED <<a_websocket, a_is_connected, a_command_counter,
                   a_pending_responses, a_listening, a_boot, a_lpc, a_lws, a_frame,
                   a_conn, a_written>>
    /\ UNCHANGED notAdmin

\* connect() inside send_command succeeds; the send goes on.
AdminSendConnectOk(c) ==
    /\ a_spc[c] = "connecting"
    /\ AdminCanConnect
    /\ AdminConnectEffect
    /\ AdminSendBody(c, AdminNextConn, a_conn',
                     [AdminSweep(a_written, AdminNextConn, a_lpc, a_lws)
                         EXCEPT ![AdminNextConn] = {InitIdentifier}])
    /\ a_ev' = NoAdminEv
    /\ UNCHANGED <<a_command_counter, a_listening, a_boot, a_lpc, a_lws, a_frame>>
    /\ UNCHANGED notAdmin

\* connect() inside send_command fails: send_command returns False.
AdminSendConnectFail(c) ==
    /\ a_spc[c] = "connecting"
    /\ AdminConnectRaises
    /\ a_spc' = [a_spc EXCEPT ![c] = "idle"]
    /\ a_ev' = NoAdminEv
    /\ UNCHANGED <<a_command_counter, a_pending_responses, a_listening,
                   a_boot, a_lpc, a_lws, a_frame>>
    /\ UNCHANGED notAdmin

\* websocket.send returned: the counter advances and send_command returns True.
AdminSendDone(c) ==
    /\ a_spc[c] = "sent"
    /\ a_command_counter' = a_command_counter + 1
    /\ a_spc' = [a_spc EXCEPT ![c] = "idle"]
    /\ a_ev' = NoAdminEv
    /\ UNCHANGED <<a_websocket, a_is_connected, a_pending_responses, a_listening,
                   a_boot, a_lpc, a_lws, a_frame, a_conn, a_written>>
    /\ UNCHANGED notAdmin

\* websocket.send raised: the session is marked disconnected and send_command
\* returns False; the pending entry stays.
AdminSendFailed(c) ==
    /\ a_spc[c] = "failed"
    /\ a_is_connected' = FALSE
    /\ a_spc' = [a_spc EXCEPT ![c] = "idle"]
    /\ a_ev' = NoAdminEv
    /\ UNCHANGED <<a_websocket, a_command_counter, a_pending_responses, a_listening,
                   a_boot, a_lpc, a_lws, a_frame, a_conn, a_written>>
    /\ UNCHANGED notAdmin

\* A connection the session refers to drops.
AdminDrop(g) ==
    /\ a_conn[g] = "open"
    /\ a_websocket = g \/ (a_lpc = "recv" /\ a_lws = g)
    /\ a_conn' = [a_conn EXCEPT ![g] = "closed"]
    /\ a_written' = [a_written EXCEPT ![g] = {}]
    /\ a_ev' = NoAdminEv
    /\ UNCHANGED <<a_websocket, a_is_connected, a_command_counter,
                   a_pending_responses, a_listening, a_boot, a_lpc, a_lws, a_frame,
                   a_spc>>
    /\ UNCHANGED notAdmin

NextAdmin ==
    \/ AdminBootOk
    \/ AdminBootFail
    \/ ListenTop
    \/ ListenCloseDone
    \/ ListenConnectOk
    \/ ListenConnectFail
    \/ ListenWake
    \/ \E f \in AdminFrames(a_lws) : \E reply \in BOOLEAN : ListenRecvFrame(f, reply)
    \/ ListenReplyOk
    \/ ListenReplyFail
    \/ ListenRecvTimeout
    \/ ListenPingFail
    \/ ListenRecvClosed
    \/ \E c \in AdminCallers : AdminSendConnected(c)
    \/ \E c \in AdminCallers : AdminSendDisconnected(c)
    \/ \E c \in AdminCallers : AdminSendConnectOk(c)
    \/ \E c \in AdminCallers : AdminSendConnectFail(c)
    \/ \E c \in AdminCallers : AdminSendDone(c)
    \/ \E c \in AdminCallers : AdminSendFailed(c)
    \/ \E g \in Conns : AdminDrop(g)

\* --------------------------------------------- RCONListener (Emote) ----
\* The frame listen_continuously read in the last step: whether it was JSON,
\* its Identifier and cleaned text (of a frame that is not JSON: -1 and the
\* raw text), and whether the callback was called with it.
NoEmoteEv == [json |-> FALSE, fid |-> -1, text |-> "", forwarded |-> FALSE]

InitEmote ==
    /\ e_websocket = 0
    /\ e_is_connected = FALSE
    /\ e_command_counter = 1
    /\ e_boot = "connecting"
    /\ e_lpc = "off"
    /\ e_conn = [g \in Conns |-> "unused"]
    /\ e_ev = NoEmoteEv

EmoteNextConn ==
    CHOOSE g \in Conns : e_conn[g] = "unused" /\ \A h \in Conns : h < g => e_conn[h] # "unused"

EmoteCanConnect == \E g \in Conns : e_conn[g] = "unused"

\* connect() succeeding, the initial envelope included.
EmoteConnectEffect ==
    /\ e_conn' = [e_conn EXCEPT ![EmoteNextConn] = "open"]
    /\ e_websocket' = EmoteNextConn
    /\ e_is_connected' = TRUE

\* connect() raising: websockets.connect raised and the websocket is the old
\* one, or the write of the initial envelope raised on the new websocket, which
\* stays the websocket of the session; the handler marks the session
\* disconnected.
EmoteConnectRaises ==
    /\ e_is_connected' = FALSE
    /\ \/ UNCHANGED <<e_websocket, e_conn>>
       \/ /\ EmoteCanConnect
          /\ e_websocket' = EmoteNextConn
          /\ e_conn' = [e_conn EXCEPT ![EmoteNextConn] = "closed"]

\* on_ready: connect() succeeds and the listening task is created.
EmoteBootOk ==
    /\ e_boot = "connecting"
    /\ EmoteCanConnect
    /\ EmoteConnectEffect
    /\ e_boot' = "done"
    /\ e_lpc' = "top"
    /\ e_ev' = NoEmoteEv
    /\ UNCHANGED e_command_counter
    /\ UNCHANGED notEmote

\* on_ready: connect() fails; no listening task is created.
EmoteBootFail ==
    /\ e_boot = "connecting"
    /\ EmoteConnectRaises
    /\ e_boot' = "done"
    /\ e_ev' = NoEmoteEv
    /\ UNCHANGED <<e_command_counter, e_lpc>>
    /\ UNCHANGED notEmote

\* listen_continuously calling connect() at the head of every round of its
\* loop, connected or not.
EmoteListenTopConnects ==
    /\ e_lpc = "top"
    /\ e_lpc' = "connecting"
    /\ e_ev' = NoEmoteEv
    /\ UNCHANGED <<e_websocket, e_is_connected, e_command_counter, e_boot, e_conn>>
    /\ UNCHANGED notEmote

\* listen_continuously at the head of its loop: connect() when the session
\* is not connected, else recv().
EmoteListenTop ==
    /\ e_lpc = "top"
    /\ e_lpc' = IF ~e_is_connected \/ e_websocket = 0 THEN "connecting" ELSE "recv"
    /\ e_ev' = NoEmoteEv
    /\ UNCHANGED <<e_websocket, e_is_connected, e_command_counter, e_boot, e_conn>>
    /\ UNCHANGED notEmote

\* connect() in the loop succeeds: recv() follows.
EmoteListenConnectOk ==
    /\ e_lpc = "connecting"
    /\ EmoteCanConnect
    /\ EmoteConnectEffect
    /\ e_lpc' = "recv"
    /\ e_ev' = NoEmoteEv
    /\ UNCHANGED <<e_command_counter, e_boot>>
    /\ UNCHANGED notEmote

\* connect() in the loop fails: sleep, then the loop starts over.
EmoteListenConnectFail ==
    /\ e_lpc = "connecting"
    /\ EmoteConnectRaises
    /\ e_lpc' = "sleep"
    /\ e_ev' = NoEmoteEv
    /\ UNCHANGED <<e_command_counter, e_boot>>
    /\ UNCHANGED notEmote

\* asyncio.sleep of listen_continuously is over.
EmoteListenWake ==
    /\ e_lpc = "sleep"
    /\ e_lpc' = "top"
    /\ e_ev' = NoEmoteEv
    /\ UNCHANGED <<e_websocket, e_is_connected, e_command_counter, e_boot, e_conn>>
    /\ UNCHANGED notEmote

\* The frames the server may send: a JSON envelope with an Identifier and any
\* text, or text that is not JSON.
EmoteFrames ==
    {[json |-> TRUE, id |-> i, text |-> t] : i \in 0..MaxId, t \in Texts}
        \cup {[json |-> FALSE, id |-> 0, text |-> "ok"]}

\* recv() returns frame f: the callback is awaited when the cleaned text is
\* not empty ("if message and process_callback"), else the loop starts over.
\* A frame that is not JSON is printed and the loop starts over.
EmoteRecvFrame(f) ==
    /\ e_lpc = "recv"
    /\ e_conn[e_websocket] = "open"
    /\ e_lpc' = IF f.json /\ Clean(f.text) # "" THEN "callback" ELSE "top"
    /\ e_ev' = IF f.json
               THEN [json |-> TRUE, fid |-> f.id, text |-> Clean(f.text),
                     forwarded |-> Clean(f.text) # ""]
               ELSE [NoEmoteEv EXCEPT !.text = f.text]
    /\ UNCHANGED <<e_websocket, e_is_connected, e_command_counter, e_boot, e_conn>>
    /\ UNCHANGED notEmote

\* recv() raises ConnectionClosed: the session is marked disconnected, sleep.
EmoteRecvClosed ==
    /\ e_lpc = "recv"
    /\ e_conn[e_websocket] = "closed"
    /\ e_is_connected' = FALSE
    /\ e_lpc' = "sleep"
    /\ e_ev' = NoEmoteEv
    /\ UNCHANGED <<e_websocket, e_command_counter, e_boot, e_conn>>
    /\ UNCHANGED notEmote

\* send_command from the write on websocket ws to its return: the counter
\* advances after the write; a write that raises marks the session
\* disconnected.
EmoteSendBody(ws, cn) ==
    /\ e_command_counter' = IF cn[ws] = "open" THEN e_command_counter + 1 ELSE e_command_counter
    /\ e_is_connected' = (cn[ws] = "open")
    /\ e_lpc' = "callback"

\* The callback calls send_command on a connected session.
EmoteSendConnected ==
    /\ e_lpc = "callback"
    /\ e_command_counter <= MaxId
    /\ e_is_connected /\ e_websocket # 0
    /\ EmoteSendBody(e_websocket, e_conn)
    /\ e_ev' = NoEmoteEv
    /\ UNCHANGED <<e_websocket, e_boot, e_conn>>
    /\ UNCHANGED notEmote

\* The callback calls send_command on a session that is not connected.
EmoteSendDisconnected ==
    /\ e_lpc = "callback"
    /\ e_command_counter <= MaxId
    /\ ~e_is_connected \/ e_websocket = 0
    /\ e_lpc' = "sending"
    /\ e_ev' = NoEmoteEv
    /\ UNCHANGED <<e_websocket, e_is_connected, e_command_counter, e_boot, e_conn>>
    /\ UNCHANGED notEmote

\* connect() inside send_command succeeds; the command is written.
EmoteSendConnectOk ==
    /\ e_lpc = "sending"
    /\ EmoteCanConnect
    /\ e_conn' = [e_conn EXCEPT ![EmoteNextConn] = "open"]
    /\ e_websocket' = EmoteNextConn
    /\ EmoteSendBody(EmoteNextConn, e_conn')
    /\ e_ev' = NoEmoteEv
    /\ UNCHANGED e_boot
    /\ UNCHANGED notEmote

\* connect() inside send_command fails: send_command returns False.
EmoteSendConnectFail ==
    /\ e_lpc = "sending"
    /\ EmoteConnectRaises
    /\ e_lpc' = "callback"
    /\ e_ev' = NoEmoteEv
    /\ UNCHANGED <<e_command_counter, e_boot>>
    /\ UNCHANGED notEmote

\* The callback returns, or raises and the exception ends the listening task.
EmoteCallbackEnds ==
    /\ e_lpc = "callback"
    /\ e_lpc' \in {"top", "off"}
    /\ e_ev' = NoEmoteEv
    /\ UNCHANGED <<e_websocket, e_is_connected, e_command_counter, e_boot, e_conn>>
    /\ UNCHANGED notEmote

\* The callback returns, or raises and the loop sleeps before it starts over.
EmoteCallbackReturn ==
    /\ e_lpc = "callback"
    /\ e_lpc' \in {"top", "sleep"}
    /\ e_ev' = NoEmoteEv
    /\ UNCHANGED <<e_websocket, e_is_connected, e_command_counter, e_boot, e_conn>>
    /\ UNCHANGED notEmote

\* The connection of the websocket drops.
EmoteDrop ==
    /\ e_websocket # 0
    /\ e_conn[e_websocket] = "open"
    /\ e_conn' = [e_conn EXCEPT ![e_websocket] = "closed"]
    /\ e_ev' = NoEmoteEv
    /\ UNCHANGED <<e_websocket, e_is_connected, e_command_counter, e_boot, e_lpc>>
    /\ UNCHANGED notEmote

NextEmote ==
    \/ EmoteBootOk
    \/ EmoteBootFail
    \/ EmoteListenTop
    \/ EmoteListenConnectOk
    \/ EmoteListenConnectFail
    \/ EmoteListenWake
    \/ \E f \in EmoteFrames : EmoteRecvFrame(f)
    \/ EmoteRecvClosed
    \/ EmoteSendConnected
    \/ EmoteSendDisconnected
    \/ EmoteSendConnectOk
    \/ EmoteSendConnectFail
    \/ EmoteCallbackReturn
    \/ EmoteDrop

\* ------------------------------------------- Emote.py: the emote file ----
\* A dict of emotes is the sequence of its items in insertion order; an item
\* is [name, time, commands] with time the text after "time =".

Names(d) == {d[i].name : i \in 1..Len(d)}

IndexOf(d, name) == CHOOSE i \in 1..Len(d) : d[i].name = name

\* d[name] = {'time': time, 'commands': commands}: a new key goes to the end,
\* an old key keeps its place.
SetItem(d, name, time, commands) ==
    LET item == [name |-> name, time |-> time, commands |-> commands]
    IN  IF name \in Names(d) THEN [d EXCEPT ![IndexOf(d, name)] = item]
        ELSE Append(d, item)

\* The state of the loop of _read_emote_config before its first line.
ReadStart == [dict |-> << >>, current_section |-> "", time_value |-> "0", commands |-> << >>]

\* "Save previous section if exists".
SaveSection(st) ==
    IF st.current_section # ""
    THEN SetItem(st.dict, st.current_section, st.time_value, st.commands)
    ELSE st.dict

\* One turn of the loop of _read_emote_config.
ReadLine(st, raw) ==
    LET line == Strip(raw) IN
    IF line = "" \/ StartsWith(line, "#") THEN st
    ELSE IF StartsWith(line, "[") /\ EndsWith(line, "]")
    THEN [dict |-> SaveSection(st),
          current_section |-> SubSeq(line, 2, Len(line) - 1),
          time_value |-> "0",
          commands |-> << >>]
    ELSE IF StartsWith(line, "time =")
    THEN [st EXCEPT !.time_value = Strip(AfterEquals(line))]
    ELSE IF st.current_section # ""
    THEN [st EXCEPT !.commands = Append(@, line)]
    ELSE st

\* The loop over lines[lo..hi] from the state st: the first half of the
\* lines, then the second.  The state after the first half is compared with
\* itself so that it is evaluated before the second half starts, which keeps
\* the evaluation of a long file shallow.
RECURSIVE ReadLines(_, _, _, _)
ReadLines(st, lines, lo, hi) ==
    IF lo > hi THEN st
    ELSE IF lo = hi THEN ReadLine(st, lines[lo])
    ELSE LET mid == (lo + hi) \div 2
             half == ReadLines(st, lines, lo, mid)
         IN  IF half = half THEN ReadLines(half, lines, mid + 1, hi) ELSE half

\* _read_emote_config on a file with these lines.
ReadEmoteConfig(lines) == SaveSection(ReadLines(ReadStart, lines, 1, Len(lines)))

\* The comment block _write_emote_config puts first.
FileHeader ==
    << "# Emote Configuration File",
       "# Format:",
       "# [emote_name]",
       "# time = 60  # Cooldown in minutes (0 = disabled)",
       "# command1",
       "# command2",
       "# ...",
       "" >>

\* A time line without the blanks around "=".
TimeLineUnspaced(time) == "time=" \o time

\* The line that carries the time of a section.
TimeLine(time) == "time = " \o time

\* What _write_emote_config writes for one item.
SectionLines(item) ==
    << "[" \o item.name \o "]", TimeLine(item.time) >> \o item.commands \o << "" >>

\* sorted(emotes_data_dict.items()): by name, the keys of a dict being distinct.
RECURSIVE SortedItems(_)
SortedItems(items) ==
    IF items = {} THEN << >>
    ELSE LET first == CHOOSE x \in items : \A y \in items \ {x} : StrLess(x.name, y.name)
         IN  <<first>> \o SortedItems(items \ {first})

RECURSIVE Concat(_)
Concat(seqs) == IF seqs = << >> THEN << >> ELSE Head(seqs) \o Concat(Tail(seqs))

\* The lines of the file _write_emote_config leaves.
WriteEmoteConfig(d) ==
    LET items == SortedItems({d[i] : i \in 1..Len(d)})
    IN  FileHeader \o Concat([i \in 1..Len(items) |-> SectionLines(items[i])])

\* The dict _create_default_emotes_config builds: every emote of ALL_EMOTES
\* disabled, then the example configurations.  ALL_EMOTES is cut to the seven
\* emotes that get an example and two of those that stay disabled.
ALL_EMOTES ==
    << "d11_quick_chat_i_need_phrase_format d11_Wood",
       "d11_quick_chat_i_need_phrase_format d11_Metal_Fragments",
       "d11_quick_chat_i_need_phrase_format d11_Water",
       "d11_quick_chat_i_need_phrase_format d11_Food",
       "d11_quick_chat_i_need_phrase_format d11_Scrap",
       "d11_quick_chat_building_slot_1",
       "d11_quick_chat_combat_slot_1",
       "d11_quick_chat_combat_slot_2",
       "d11_quick_chat_responses_slot_0" >>

Examples ==
    << [name |-> "d11_quick_chat_i_need_phrase_format d11_Wood", time |-> "60",
        commands |-> <<"giveto {player} wood 3000", "givedrop {player} stones 3000 3">>],
       [name |-> "d11_quick_chat_building_slot_1", time |-> "10",
        commands |-> <<"printpos {player}">>],
       [name |-> "d11_quick_chat_combat_slot_1", time |-> "10",
        commands |-> <<"teleportpos {player}">>],
       [name |-> "d11_quick_chat_i_need_phrase_format d11_Metal_Fragments", time |-> "30",
        commands |-> <<"giveto {player} metal.fragments 1000">>],
       [name |-> "d11_quick_chat_i_need_phrase_format d11_Water", time |-> "20",
        commands |-> <<"giveto {player} water 5">>],
       [name |-> "d11_quick_chat_i_need_phrase_format d11_Food", time |-> "20",
        commands |-> <<"giveto {player} can.beans 10">>],
       [name |-> "d11_quick_chat_i_need_phrase_format d11_Scrap", time |-> "45",
        commands |-> <<"giveto {player} scrap 500">>] >>

RECURSIVE WithExamples(_, _)
WithExamples(d, ex) ==
    IF ex = << >> THEN d
    ELSE WithExamples(IF Head(ex).name \in Names(d)
                      THEN SetItem(d, Head(ex).name, Head(ex).time, Head(ex).commands)
                      ELSE d,
                      Tail(ex))

\* Every emote of ALL_EMOTES disabled and no example configuration.
disabled_emotes_data ==
    [i \in 1..Len(ALL_EMOTES) |-> [name |-> ALL_EMOTES[i], time |-> "0", commands |-> << >>]]

default_emotes_data ==
    WithExamples([i \in 1..Len(ALL_EMOTES) |->
                     [name |-> ALL_EMOTES[i], time |-> "0", commands |-> << >>]],
                 Examples)

\* ------------------------------------------- Emote.py: the coordinate file ----
\* player_coordinates.ini is written by ConfigParser.write and read by
\* ConfigParser.read.

\* ConfigParser.write for sections that hold the option position: for every
\* section its header, the option and an empty line.  The sections are written
\* in the order of their insertion; the mapping a reader gets does not depend
\* on the order, and the model writes them in the order of their names.
RECURSIVE WriteCoordinates(_)
WriteCoordinates(config) ==
    IF DOMAIN config = {} THEN << >>
    ELSE LET first == CHOOSE p \in DOMAIN config :
                          \A q \in DOMAIN config \ {p} : StrLess(p, q)
         IN  << "[" \o first \o "]", "position = " \o config[first], "" >>
                 \o WriteCoordinates(Del(config, first))

\* The index of the last "]" of the text, 0 when it has none.
LastClose(t) ==
    LET hits == {i \in 1..Len(t) : CharAt(t, i) = "]"}
    IN  IF hits = {} THEN 0 ELSE CHOOSE i \in hits : \A j \in hits : j <= i

\* The index of the first "=" or ":" of the text, 0 when it has none.
FirstDelimiter(t) ==
    LET hits == {i \in 1..Len(t) : CharAt(t, i) \in {"=", ":"}}
    IN  IF hits = {} THEN 0 ELSE CHOOSE i \in hits : \A j \in hits : i <= j

\* ConfigParser.read, one line: a comment or an empty line is skipped, a line
\* that starts with "[" and has text before a later "]" opens the section
\* named by the text up to its last "]", and any other line of a section is an
\* option, of which the store keeps position.
ReadCoordinateLine(st, line) ==
    LET t == Strip(line)
        close == LastClose(t)
        cut == FirstDelimiter(t)
        option == IF cut = 0 THEN t ELSE RStrip(SubSeq(t, 1, cut - 1))
        value == IF cut = 0 THEN "" ELSE Strip(From(t, cut + 1))
    IN  IF t = "" \/ CharAt(t, 1) \in {"#", ";"} THEN st
        ELSE IF CharAt(t, 1) = "[" /\ close > 2
        THEN [st EXCEPT !.section = SubSeq(t, 2, close - 1)]
        ELSE IF st.section # "" /\ option = "position"
        THEN [st EXCEPT !.config = Put(st.config, st.section, value)]
        ELSE st

RECURSIVE ReadCoordinateLines(_, _, _)
ReadCoordinateLines(st, lines, i) ==
    IF i > Len(lines) THEN st.config
    ELSE ReadCoordinateLines(ReadCoordinateLine(st, lines[i]), lines, i + 1)

\* ConfigParser.read of the lines of the file: player -> position.
ReadCoordinates(lines) ==
    ReadCoordinateLines([config |-> << >>, section |-> ""], lines, 1)

\* ------------------------------------------------------- EmoteManager ----
\* The callback of the emote bot.  listen_continuously awaits the callback
\* before it reads the next frame and nothing else calls the manager, so one
\* call of process_message is one step; what its awaits of send_command
\* return is an input of the step.

\* The capture requests that were transmitted since the last request that
\* found every request before it with its positional text, in the order of
\* their transmission, and the number of positional texts observed since then,
\* as far as there is a request for each.
NoneAsked == [asked |-> << >>, answered |-> 0]

\* After player_name's commands sent were transmitted: one request for each
\* capture command among them.
AfterRequests(g, player_name, sent) ==
    LET n == Cardinality({i \in DOMAIN sent : StartsWith(sent[i], "printpos")})
        open == IF n > 0 /\ g.answered >= Len(g.asked) THEN NoneAsked ELSE g
    IN  [open EXCEPT !.asked = @ \o [i \in 1..n |-> player_name]]

\* After a positional text was observed.
AfterResponse(g) == [g EXCEPT !.answered = IF @ < Len(g.asked) THEN @ + 1 ELSE @]

\* What process_message did with the last message; every step sets m_ev.
\*   kind     : "" none yet, "chat", "position", "other", "invalid"
\*   chat_id, text : the identity of a chat event and its stripped text
\*   player, emote : the arguments of handle_emote_request ("" : not called)
\*   outcome  : "disabled", "cooldown", "success", "failed", "nocommands"
\*   sent     : the commands send_command transmitted, in order
\*   log      : the message to the logs channel ("" : none)
\*   left     : minutes of cooldown the log reports
\*   coordinates : what extract_coordinates found in the text ("" : nothing)
NoManagerEv ==
    [kind |-> "", chat_id |-> "", text |-> "", player |-> "", emote |-> "",
     outcome |-> "", sent |-> << >>, log |-> "", left |-> 0, coordinates |-> ""]

\* The manager before its constructor has run, with one of these emote files
\* and one of these coordinate files.
InitManagerFrom(files, coordinate_files, players) ==
    /\ emotes_file \in files
    /\ coordinates_file \in coordinate_files
    /\ usernames = players
    /\ emotes_data = << >>
    /\ emote_cooldowns = << >>
    /\ coordinates_config = << >>
    /\ current_printpos_player = {}
    /\ processed_chat_ids = {}
    /\ now = 0
    /\ m_pc = "new"
    /\ m_saved = << >>
    /\ m_last = << >>
    /\ m_ev = NoManagerEv
    /\ m_asked = NoneAsked
    /\ h_calls = << >>

\* The manager before its constructor has run, with one of these emote files
\* and no coordinate file.
InitManagerWith(files, players) ==
    InitManagerFrom(files, {[exists |-> FALSE, lines |-> << >>]}, players)

\* The manager before its constructor has run and with no emote file: the
\* one state in which the other programs of the module leave it.
InitManager == InitManagerWith({[exists |-> FALSE, lines |-> << >>]}, << >>)

\* _load_configurations: the coordinate file is read when there is one; the
\* default emote file is written when there is none, then the emote file is
\* read.
LoadConfigurations ==
    /\ m_pc = "new"
    /\ coordinates_config' = IF coordinates_file.exists
                             THEN ReadCoordinates(coordinates_file.lines)
                             ELSE coordinates_config
    /\ emotes_file' = IF emotes_file.exists THEN emotes_file
                      ELSE [exists |-> TRUE, lines |-> WriteEmoteConfig(default_emotes_data)]
    /\ emotes_data' = ReadEmoteConfig(emotes_file'.lines)
    /\ m_saved' = IF emotes_file.exists THEN m_saved ELSE default_emotes_data
    /\ m_pc' = IF emotes_file.exists THEN "loaded" ELSE "reloaded"
    /\ UNCHANGED <<emote_cooldowns, coordinates_file, current_printpos_player,
                   processed_chat_ids, now, usernames, m_last, m_ev>>
    /\ UNCHANGED h_calls
    /\ UNCHANGED m_asked
    /\ UNCHANGED notManager

\* _write_emote_config given the dict in memory.
WriteConfig ==
    /\ m_pc = "loaded"
    /\ emotes_file' = [exists |-> TRUE, lines |-> WriteEmoteConfig(emotes_data)]
    /\ m_saved' = emotes_data
    /\ m_pc' = "saved"
    /\ UNCHANGED <<emotes_data, emote_cooldowns, coordinates_config, coordinates_file,
                   current_printpos_player,
                   processed_chat_ids, now, usernames, m_last, m_ev>>
    /\ UNCHANGED h_calls
    /\ UNCHANGED m_asked
    /\ UNCHANGED notManager

\* _read_emote_config of the file just written.
ReadConfig ==
    /\ m_pc = "saved"
    /\ emotes_data' = ReadEmoteConfig(emotes_file.lines)
    /\ m_pc' = "reloaded"
    /\ UNCHANGED <<emotes_file, emote_cooldowns, coordinates_config, coordinates_file,
                   current_printpos_player,
                   processed_chat_ids, now, usernames, m_saved, m_last, m_ev>>
    /\ UNCHANGED h_calls
    /\ UNCHANGED m_asked
    /\ UNCHANGED notManager

\* The characters of the regex class [-\d\.].
IsCoordChar(ch) == ch # "" /\ (IsDigit(ch) \/ ch \in {"-", "."})

\* The last index of the longest run of characters from index i on that
\* satisfy the class; i - 1 when the run is empty.
RECURSIVE NumberEnd(_, _)
NumberEnd(s, i) == IF IsCoordChar(CharAt(s, i)) THEN NumberEnd(s, i + 1) ELSE i - 1

RECURSIVE BlanksEnd(_, _)
BlanksEnd(s, i) == IF CharAt(s, i) \in Whitespace THEN BlanksEnd(s, i + 1) ELSE i - 1

\* The match of \(([-\d\.]+),\s*([-\d\.]+),\s*([-\d\.]+)\) that starts at
\* index i, as "x,y,z"; "" when there is none.  A number ends where the class
\* ends and blanks end where blanks end, since what follows each is outside it.
MatchAt(s, i) ==
    LET x1 == i + 1
        x2 == NumberEnd(s, x1)
        y1 == BlanksEnd(s, x2 + 2) + 1
        y2 == NumberEnd(s, y1)
        z1 == BlanksEnd(s, y2 + 2) + 1
        z2 == NumberEnd(s, z1)
    IN  IF /\ CharAt(s, i) = "("
           /\ x2 >= x1 /\ CharAt(s, x2 + 1) = ","
           /\ y2 >= y1 /\ CharAt(s, y2 + 1) = ","
           /\ z2 >= z1 /\ CharAt(s, z2 + 1) = ")"
        THEN SubSeq(s, x1, x2) \o "," \o SubSeq(s, y1, y2) \o "," \o SubSeq(s, z1, z2)
        ELSE ""

\* extract_coordinates: the leftmost match; "" stands for None, which the
\* caller tells from a match by truth value only.
extract_coordinates(line) ==
    LET hits == {i \in 1..Len(line) : MatchAt(line, i) # ""}
    IN  IF hits = {} THEN ""
        ELSE MatchAt(line, CHOOSE i \in hits : \A j \in hits : i <= j)

\* The section name ConfigParser.add_section refuses with ValueError.
DefaultSection == "DEFAULT"

\* store_player_coordinates: the config after the call.  add_section raises
\* for the default section, the handler of the exception returns False and
\* nothing is set.
store_player_coordinates(config, player_name, coordinates) ==
    IF player_name = DefaultSection THEN config
    ELSE Put(config, player_name, coordinates)

\* store_player_coordinates: the file after the call, given the config after
\* it.  The file is written after the option is set, so not when add_section
\* raised.
write_player_coordinates(file, config, player_name) ==
    IF player_name = DefaultSection THEN file
    ELSE [exists |-> TRUE, lines |-> WriteCoordinates(config)]

\* get_player_coordinates; "" stands for None.
get_player_coordinates(config, player_name) ==
    IF player_name \in DOMAIN config THEN config[player_name] ELSE ""

\* f"{player_name}_{emote_name}"
cooldown_key(player_name, emote_name) == player_name \o "_" \o emote_name

\* int(time) with ValueError giving a cooldown of one minute.
cooldown_minutes_or_one(time) == IF ParseInt(time).err THEN 1 ELSE ParseInt(time).val

\* int(time) with ValueError giving 0.
cooldown_minutes(time) == IF ParseInt(time).err THEN 0 ELSE ParseInt(time).val

\* f'teleportpos {coordinates} "{player_name}"'
TeleportCommand(coordinates, p) == "teleportpos " \o coordinates \o " \"" \o p \o "\""

\* formatted_command: what is handed to send_command for a command of an
\* emote.
FormattedCommand(command, player_name, config) ==
    IF StartsWith(command, "printpos") THEN "printpos \"" \o player_name \o "\""
    ELSE IF StartsWith(command, "teleportpos")
    THEN TeleportCommand(get_player_coordinates(config, player_name), player_name)
    ELSE Replace(command, "{player}", player_name)

\* Coordinates pass for stored whatever they are.
AlwaysStored(coordinates) == TRUE

\* "if coordinates:"
Stored(coordinates) == coordinates # ""

\* The marker keeps the player of the first capture request that is open.
FirstAsked(marker, player_name) == IF marker = {} THEN {player_name} ELSE marker

\* "self.current_printpos_player = player_name"
LastAsked(marker, player_name) == {player_name}

\* The marker is set whatever send_command returned.
MarkerWhatever(marker, player_name, ok) == LastAsked(marker, player_name)

\* "if await rcon_listener.send_command(formatted_command): ...
\*  self.current_printpos_player = player_name"
MarkerAfter(marker, player_name, ok) ==
    IF ok THEN LastAsked(marker, player_name) ELSE marker

\* The loop over the commands of an emote from command i on.  acc carries
\* commands_executed, teleport_failed, the marker and the commands sent;
\* ok[i] is what send_command returns for command i.
RECURSIVE Execute(_, _, _, _, _, _)
Execute(commands, i, player_name, config, ok, acc) ==
    IF i > Len(commands) THEN acc
    ELSE LET command == commands[i]
             sent == [acc EXCEPT !.executed = @ + 1,
                                 !.sent = Append(@, FormattedCommand(command, player_name,
                                                                     config))]
             after ==
                 IF Strip(command) = "" THEN acc
                 ELSE IF StartsWith(command, "printpos")
                 THEN [(IF ok[i] THEN sent ELSE acc)
                          EXCEPT !.marker = MarkerAfter(@, player_name, ok[i])]
                 ELSE IF StartsWith(command, "teleportpos")
                 THEN IF Stored(get_player_coordinates(config, player_name))
                      THEN IF ok[i] THEN sent ELSE acc
                      ELSE [acc EXCEPT !.teleport_failed = TRUE]
                 ELSE IF ok[i] THEN sent ELSE acc
         IN  Execute(commands, i + 1, player_name, config, ok, after)

\* No emote counts as disabled.
NeverDisabled(minutes) == FALSE

\* "if cooldown_minutes == 0"
Disabled(minutes) == minutes = 0

\* The cooldown entry is set whatever the count of commands executed.
AlwaysUpdate(cooldowns, key, executed, time) == Put(cooldowns, key, time)

\* "if commands_executed > 0: self.emote_cooldowns[cooldown_key] = current_time"
UpdateCooldown(cooldowns, key, executed, time) ==
    IF executed > 0 THEN Put(cooldowns, key, time) ELSE cooldowns

\* handle_emote_request for an emote of the dict: the outcome, the commands
\* sent, the log message, and the cooldowns and the marker it leaves.
handle_emote_request(player_name, emote_name, ok) ==
    LET item == emotes_data[IndexOf(emotes_data, emote_name)]
        minutes == cooldown_minutes(item.time)
        key == cooldown_key(player_name, emote_name)
        quiet == [outcome |-> "", sent |-> << >>, log |-> "", left |-> 0,
                  cooldowns |-> emote_cooldowns, marker |-> current_printpos_player]
        run == Execute(item.commands, 1, player_name, coordinates_config, ok,
                       [executed |-> 0, teleport_failed |-> FALSE,
                        marker |-> current_printpos_player, sent |-> << >>])
    IN  IF Disabled(minutes) THEN [quiet EXCEPT !.outcome = "disabled"]
        ELSE IF key \in DOMAIN emote_cooldowns /\ now - emote_cooldowns[key] < minutes
        THEN [quiet EXCEPT !.outcome = "cooldown", !.log = "cooldown left",
                           !.left = minutes - (now - emote_cooldowns[key])]
        ELSE IF item.commands = << >>
        THEN [quiet EXCEPT !.outcome = "nocommands", !.log = "no commands configured"]
        ELSE IF run.executed > 0
        THEN [outcome |-> "success", sent |-> run.sent, log |-> "executed", left |-> 0,
              cooldowns |-> UpdateCooldown(emote_cooldowns, key, run.executed, now),
              marker |-> run.marker]
        ELSE [outcome |-> "failed", sent |-> run.sent,
              log |-> IF run.teleport_failed THEN "no coordinates stored"
                      ELSE "no commands were executed",
              left |-> 0,
              cooldowns |-> UpdateCooldown(emote_cooldowns, key, run.executed, now),
              marker |-> run.marker]

\* The last emote of the dict whose name is in the text.
LastMatch(text) ==
    LET hits == {i \in 1..Len(emotes_data) : Contains(text, emotes_data[i].name)}
    IN  IF hits = {} THEN 0 ELSE CHOOSE i \in hits : \A j \in hits : j <= i

\* The emote at which the loop over emotes_data.keys() stops: the first whose
\* name is in the text; 0 when the loop ends without one.
FirstMatch(text) ==
    LET hits == {i \in 1..Len(emotes_data) : Contains(text, emotes_data[i].name)}
    IN  IF hits = {} THEN 0 ELSE CHOOSE i \in hits : \A j \in hits : i <= j

\* f"{user_id}_{timestamp}_{message_content}"
chat_id(user_id, timestamp, message_content) ==
    ToString(user_id) \o "_" \o ToString(timestamp) \o "_" \o message_content

\* A chat event never passes for new.
NeverProcessed(id) == FALSE

\* "chat_id in self.processed_chat_ids"
Processed(id) == id \in processed_chat_ids

\* process_message given a chat event: JSON with these fields.
ProcessChat(user_id, username, timestamp, message, ok) ==
    LET message_content == Strip(message)
        id == chat_id(user_id, timestamp, message_content)
        hit == FirstMatch(message_content)
        r == handle_emote_request(username, emotes_data[hit].name, ok)
        base == [NoManagerEv EXCEPT !.kind = "chat", !.chat_id = id,
                                    !.text = message_content]
    IN  /\ m_pc # "new"
        /\ IF Processed(id)
           THEN /\ m_ev' = base
                /\ UNCHANGED <<processed_chat_ids, emote_cooldowns,
                               current_printpos_player, m_last>>
           ELSE /\ processed_chat_ids' = processed_chat_ids \cup {id}
                /\ IF hit = 0
                   THEN /\ m_ev' = base
                        /\ UNCHANGED <<emote_cooldowns, current_printpos_player, m_last>>
                   ELSE /\ m_ev' = [base EXCEPT !.player = username,
                                              !.emote = emotes_data[hit].name,
                                              !.outcome = r.outcome, !.sent = r.sent,
                                              !.log = r.log, !.left = r.left]
                        /\ emote_cooldowns' = r.cooldowns
                        /\ current_printpos_player' = r.marker
                        /\ m_last' = IF r.outcome = "success"
                                     THEN Put(m_last, <<username, emotes_data[hit].name>>, now)
                                     ELSE m_last
        /\ UNCHANGED <<emotes_file, emotes_data, coordinates_config, coordinates_file, now,
                       usernames, m_pc,
                       m_saved>>
        /\ UNCHANGED h_calls
        /\ m_asked' = AfterRequests(m_asked, m_ev'.player, m_ev'.sent)
        /\ UNCHANGED notManager

\* Text that is no chat event.
PlainTexts == {"at (12.5, -3.0,100.0)", "(1, 2)"}

\* Positions the server prints in answer to printpos.
PositionTexts == {"(12.5, -3.0,100.0)", "(0,0,0)"}

\* extract_coordinates of each of these texts, computed once.
CoordinatesOf == [text \in PlainTexts \cup PositionTexts |-> extract_coordinates(text)]

\* process_message given text that does not start with "{".
ProcessText(message) ==
    LET coordinates == CoordinatesOf[message]
        store == coordinates # "" /\ current_printpos_player \notin {{}, {""}}
        base == [NoManagerEv EXCEPT !.kind = IF coordinates # "" THEN "position" ELSE "other",
                                    !.coordinates = coordinates]
    IN  /\ m_pc # "new"
        /\ IF store
           THEN /\ coordinates_config' =
                       store_player_coordinates(coordinates_config,
                           CHOOSE p \in current_printpos_player : TRUE, coordinates)
                /\ coordinates_file' =
                       write_player_coordinates(coordinates_file, coordinates_config',
                           CHOOSE p \in current_printpos_player : TRUE)
                /\ current_printpos_player' = {}
                /\ m_ev' = [base EXCEPT !.log = "saved coordinates"]
           ELSE /\ m_ev' = base
                /\ UNCHANGED <<coordinates_config, coordinates_file, current_printpos_player>>
        /\ UNCHANGED <<emotes_file, emotes_data, emote_cooldowns, processed_chat_ids, now,
                       usernames, m_pc, m_saved, m_last>>
        /\ UNCHANGED h_calls
        /\ m_asked' = IF m_ev'.kind = "position" THEN AfterResponse(m_asked) ELSE m_asked
        /\ UNCHANGED notManager

\* process_message given text that starts with "{" and is not JSON:
\* json.loads raises JSONDecodeError and the handler passes.
ProcessBadJson ==
    /\ m_pc # "new"
    /\ m_ev' = [NoManagerEv EXCEPT !.kind = "invalid"]
    /\ UNCHANGED <<emotes_file, emotes_data, emote_cooldowns, coordinates_config, coordinates_file,
                   current_printpos_player, processed_chat_ids, now, usernames, m_pc, m_saved,
                   m_last>>
    /\ UNCHANGED h_calls
    /\ UNCHANGED m_asked
    /\ UNCHANGED notManager

\* A minute passes.
Tick(n) ==
    /\ m_pc # "new"
    /\ now < n
    /\ now' = now + 1
    /\ m_ev' = NoManagerEv
    /\ UNCHANGED <<emotes_file, emotes_data, emote_cooldowns, coordinates_config, coordinates_file,
                   current_printpos_player, processed_chat_ids, usernames, m_pc, m_saved,
                   m_last>>
    /\ UNCHANGED h_calls
    /\ UNCHANGED m_asked
    /\ UNCHANGED notManager

\* ------------------------------- handle_emote_request at its awaits ----
\* The same handler, one step per stretch of code between two awaits: the
\* awaits of send_command in the loop over the commands and the awaits of
\* _send_to_logs before the returns.

\* A call of handle_emote_request suspended at an await:
\*   player, emote : its arguments
\*   time     : current_time, taken when the call started
\*   i        : the command whose send_command is awaited, 0 at _send_to_logs
\*   executed, teleport_failed : the locals of the loop
\*   attempts : the commands handed to send_command so far, by their index
Call(player_name, emote_name, time) ==
    [player |-> player_name, emote |-> emote_name, time |-> time, i |-> 0, executed |-> 0,
     teleport_failed |-> FALSE, attempts |-> << >>]

\* The loop leaving at the first replay command of a player without
\* coordinates ("break" where the code has "continue").
RunToAwaitOrLeave(call, commands, i) ==
    IF i > Len(commands) THEN [call EXCEPT !.i = i]
    ELSE IF /\ StartsWith(commands[i], "teleportpos")
            /\ ~Stored(get_player_coordinates(coordinates_config, call.player))
    THEN [call EXCEPT !.teleport_failed = TRUE, !.i = Len(commands) + 1]
    ELSE [call EXCEPT !.i = i, !.attempts = Append(@, i)]

\* The loop over the commands from command i on, up to its next await of
\* send_command: a blank command and a replay command of a player without
\* coordinates are passed without an await.  i is past the last command when
\* the loop has ended.
RECURSIVE RunToAwait(_, _, _)
RunToAwait(call, commands, i) ==
    IF i > Len(commands) THEN [call EXCEPT !.i = i]
    ELSE IF Strip(commands[i]) = "" THEN RunToAwait(call, commands, i + 1)
    ELSE IF /\ StartsWith(commands[i], "teleportpos")
            /\ ~Stored(get_player_coordinates(coordinates_config, call.player))
    THEN RunToAwait([call EXCEPT !.teleport_failed = TRUE], commands, i + 1)
    ELSE [call EXCEPT !.i = i, !.attempts = Append(@, i)]

\* The listener reads the next frame without waiting for the callback.
CallbackDetached == TRUE

\* "await process_callback(message)": listen_continuously reads the next frame
\* when the callback has returned.
CallbackAwaited == h_calls = << >>

\* What the end of the loop leaves of a call: the outcome and the log message.
LoopEnd(call) ==
    IF call.executed > 0 THEN [outcome |-> "success", log |-> "executed"]
    ELSE [outcome |-> "failed",
          log |-> IF call.teleport_failed THEN "no coordinates stored"
                  ELSE "no commands were executed"]

\* process_message given a chat event, up to its return or to the first await
\* of handle_emote_request.
StartCall(user_id, username, timestamp, message) ==
    LET message_content == Strip(message)
        id == chat_id(user_id, timestamp, message_content)
        hit == FirstMatch(message_content)
        item == emotes_data[hit]
        minutes == cooldown_minutes(item.time)
        key == cooldown_key(username, item.name)
        call == RunToAwait(Call(username, item.name, now), item.commands, 1)
        base == [NoManagerEv EXCEPT !.kind = "chat", !.chat_id = id,
                                    !.text = message_content]
        found == [base EXCEPT !.player = username, !.emote = item.name]
    IN  /\ m_pc # "new"
        /\ CallbackAwaited
        /\ IF Processed(id)
           THEN /\ m_ev' = base
                /\ UNCHANGED <<processed_chat_ids, h_calls>>
           ELSE /\ processed_chat_ids' = processed_chat_ids \cup {id}
                /\ IF hit = 0
                   THEN /\ m_ev' = base
                        /\ UNCHANGED h_calls
                   ELSE IF Disabled(minutes)
                   THEN /\ m_ev' = [found EXCEPT !.outcome = "disabled"]
                        /\ UNCHANGED h_calls
                   ELSE IF key \in DOMAIN emote_cooldowns /\ now - emote_cooldowns[key] < minutes
                   THEN /\ m_ev' = [found EXCEPT !.outcome = "cooldown", !.log = "cooldown left",
                                       !.left = minutes - (now - emote_cooldowns[key])]
                        /\ h_calls' = Append(h_calls, Call(username, item.name, now))
                   ELSE IF item.commands = << >>
                   THEN /\ m_ev' = [found EXCEPT !.outcome = "nocommands",
                                                 !.log = "no commands configured"]
                        /\ h_calls' = Append(h_calls, Call(username, item.name, now))
                   ELSE IF call.i > Len(item.commands)
                   THEN /\ m_ev' = [found EXCEPT !.outcome = LoopEnd(call).outcome,
                                                 !.log = LoopEnd(call).log]
                        /\ h_calls' = Append(h_calls, [call EXCEPT !.i = 0])
                   ELSE /\ m_ev' = [found EXCEPT !.outcome = "passed"]
                        /\ h_calls' = Append(h_calls, call)
        /\ UNCHANGED <<emotes_file, emotes_data, emote_cooldowns, coordinates_config,
                       coordinates_file, current_printpos_player, now, usernames, m_pc,
                       m_saved, m_last>>
        /\ UNCHANGED m_asked
        /\ UNCHANGED notManager

\* The await of send_command of call k returns ok: the rest of the iteration,
\* then the loop up to its next await or, when it has ended, the cooldown
\* write up to the await of _send_to_logs.
SendReturns(k, ok) ==
    LET call == h_calls[k]
        item == emotes_data[IndexOf(emotes_data, call.emote)]
        command == item.commands[call.i]
        counted == [call EXCEPT !.executed = IF ok THEN @ + 1 ELSE @]
        next == RunToAwait(counted, item.commands, call.i + 1)
        ended == next.i > Len(item.commands)
    IN  /\ k \in DOMAIN h_calls
        /\ call.i # 0
        /\ current_printpos_player' =
               IF StartsWith(command, "printpos")
               THEN MarkerAfter(current_printpos_player, call.player, ok)
               ELSE current_printpos_player
        /\ h_calls' = [h_calls EXCEPT ![k] = IF ended THEN [next EXCEPT !.i = 0] ELSE next]
        /\ emote_cooldowns' =
               IF ended
               THEN UpdateCooldown(emote_cooldowns, cooldown_key(call.player, call.emote),
                                   next.executed, call.time)
               ELSE emote_cooldowns
        /\ m_last' = IF ok /\ call.executed = 0
                     THEN Put(m_last, <<call.player, call.emote>>, call.time)
                     ELSE m_last
        /\ m_ev' = [NoManagerEv EXCEPT
                       !.kind = "sent", !.player = call.player, !.emote = call.emote,
                       !.sent = IF ok THEN <<FormattedCommand(command, call.player,
                                                              coordinates_config)>>
                                ELSE << >>,
                       !.outcome = IF ended THEN LoopEnd(next).outcome ELSE "",
                       !.log = IF ended THEN LoopEnd(next).log ELSE ""]
        /\ UNCHANGED <<emotes_file, emotes_data, coordinates_config, coordinates_file,
                       processed_chat_ids, now, usernames, m_pc, m_saved>>
        /\ m_asked' = AfterRequests(m_asked, m_ev'.player, m_ev'.sent)
        /\ UNCHANGED notManager

\* The await of _send_to_logs of call k returns and the call with it.
LogReturns(k) ==
    /\ k \in DOMAIN h_calls
    /\ h_calls[k].i = 0
    /\ h_calls' = [j \in 1..(Len(h_calls) - 1) |-> IF j < k THEN h_calls[j] ELSE h_calls[j + 1]]
    /\ m_ev' = [NoManagerEv EXCEPT !.kind = "returned", !.player = h_calls[k].player,
                                   !.emote = h_calls[k].emote]
    /\ UNCHANGED <<emotes_file, emotes_data, emote_cooldowns, coordinates_config,
                   coordinates_file, current_printpos_player, processed_chat_ids, now,
                   usernames, m_pc, m_saved, m_last>>
    /\ UNCHANGED m_asked
    /\ UNCHANGED notManager

\* The scenarios of the emote engine: an emote file and the players.

\* Two emotes, the name of one inside the name of the other, and two players,
\* the name of one the start of the name of the other.
CooldownScenario ==
    [lines |-> << "[b_c]", "time = 2", "giveto {player} wood",
                  "[c]", "time = 2", "giveto {player} water" >>,
     players |-> <<"a", "a_b">>]

\* A capture emote and a replay emote.
CaptureScenario ==
    [lines |-> << "[p]", "time = 1", "printpos {player}",
                  "[t]", "time = 1", "teleportpos {player}" >>,
     players |-> <<"a", "DEFAULT">>]

\* A disabled emote, an emote with a time that is no number, an emote without
\* commands and an emote with two commands.
DisabledScenario ==
    [lines |-> << "[z]", "time = 0", "giveto {player} scrap",
                  "[y]", "time = soon", "giveto {player} scrap",
                  "[n]", "time = 1",
                  "[w]", "time = 1", "giveto {player} wood", "givedrop {player} stones 3" >>,
     players |-> <<"a">>]

Scenarios == {CooldownScenario, CaptureScenario, DisabledScenario}

\* A capture emote and two players.
StoreScenario ==
    [lines |-> << "[p]", "time = 1", "printpos {player}" >>, players |-> <<"a", "b">>]

\* The coordinate files the manager starts with: none, and one that holds a
\* position of player b.
CoordinateFiles ==
    {[exists |-> FALSE, lines |-> << >>],
     [exists |-> TRUE, lines |-> << "[b]", "position = 7,8,9", "" >>]}

\* An emote of two commands and an emote with a replay command between two
\* other commands, and two players.
GateScenario ==
    [lines |-> << "[w]", "time = 2", "giveto {player} wood", "givedrop {player} stones 3",
                  "[s]", "time = 1", "giveto {player} scrap", "teleportpos {player}",
                  "printpos {player}" >>,
     players |-> <<"a", "b">>]

\* Values of the time setting: text that int() refuses, and numerals.
TimeTexts == {"soon", "", "5.5", "-", "1 0", "1_", "2 # minutes", "0", "1", "-1", "1_0"}

\* One emote with a command and with each of these values as its time.
TimeFiles ==
    {[exists |-> TRUE, lines |-> << "[m]", "time = " \o t, "giveto {player} scrap" >>] :
        t \in TimeTexts}

\* The chat texts: the names of the emotes.
ChatTexts == Names(emotes_data)

\* What the awaits of send_command return, per command of the emote the
\* text selects.
SendResults(text) ==
    [1..(IF FirstMatch(Strip(text)) = 0 THEN 0
         ELSE Len(emotes_data[FirstMatch(Strip(text))].commands)) -> BOOLEAN]

\* A chat event arrives: of a player, with one of the chat texts, and either
\* delivered before or new, with the time of now and while fewer than n chat
\* events were processed.  An event delivered before sends nothing.
Chat(n) ==
    \E u \in DOMAIN usernames : \E ts \in 0..now : \E text \in ChatTexts :
        /\ \/ chat_id(u, ts, Strip(text)) \in processed_chat_ids
           \/ ts = now /\ Cardinality(processed_chat_ids) < n
        /\ \E ok \in IF Processed(chat_id(u, ts, Strip(text))) THEN {<< >>}
                     ELSE SendResults(text) :
               ProcessChat(u, usernames[u], ts, text, ok)

NextManager ==
    \/ LoadConfigurations
    \/ Chat(MaxChats)
    \/ \E text \in PlainTexts : ProcessText(text)
    \/ ProcessBadJson
    \/ Tick(MaxTime)

\* A chat event is read by the listener: of a player, with one of the chat
\* texts, and either delivered before or new, with the time of now and while
\* fewer than n chat events were processed.
Arrive(n) ==
    \E u \in DOMAIN usernames : \E ts \in 0..now : \E text \in ChatTexts :
        /\ \/ chat_id(u, ts, Strip(text)) \in processed_chat_ids
           \/ ts = now /\ Cardinality(processed_chat_ids) < n
        /\ StartCall(u, usernames[u], ts, text)

\* The handler at its awaits: chat events, the returns of the awaits and the
\* clock.
NextCalls ==
    \/ LoadConfigurations
    \/ Arrive(MaxChats)
    \/ \E k \in DOMAIN h_calls : \E ok \in BOOLEAN : SendReturns(k, ok)
    \/ \E k \in DOMAIN h_calls : LogReturns(k)
    \/ Tick(MaxTime)

\* The coordinate store: chat events, positions the server prints and the
\* clock.
NextStore ==
    \/ LoadConfigurations
    \/ Chat(MaxChats)
    \/ \E text \in PositionTexts : ProcessText(text)
    \/ Tick(MaxTime)

\* The lines of the emote files the registry is read from.
FileLines ==
    {"[b_c]", "[c]", "[]", "time = 2", "time =", "time=5", " giveto {player} wood 3000 ",
     "# note", ""}

RECURSIVE SeqsUpTo(_, _)
SeqsUpTo(S, n) ==
    IF n = 0 THEN {<< >>}
    ELSE LET shorter == SeqsUpTo(S, n - 1)
         IN  shorter \cup {Append(s, x) : s \in shorter, x \in S}

\* Every file of at most MaxLines of these lines, and no file.
RegistryFiles ==
    {[exists |-> FALSE, lines |-> << >>]}
        \cup {[exists |-> TRUE, lines |-> l] : l \in SeqsUpTo(FileLines, MaxLines)}

\* The cooldown scenario: chat events and the clock.
NextCooldown ==
    \/ LoadConfigurations
    \/ Chat(CollisionChats)
    \/ Tick(CollisionTime)

NextRegistry ==
    \/ LoadConfigurations
    \/ WriteConfig
    \/ ReadConfig

\* ------------------------------------------ rustradio.py: the retries ----
MAX_RETRIES == 5

Handlers == 1..NumHandlers

\* A call of safe_connect or safe_play_radio by a handler:
\*   fn          : "" (none yet), "safe_connect", "safe_play_radio"
\*   pc          : "idle"; "attempt" at the await of channel.connect, or of
\*                 asyncio.sleep(3) after vc.play; "sleep" at the await of
\*                 asyncio.sleep(RETRY_DELAY); "done" when the call has returned
\*   retry_count : the argument of the innermost recursive call
\*   attempts    : the attempts the call has made
\*   result      : what the call returned ("" : nothing yet)
NoCall == [fn |-> "", pc |-> "idle", retry_count |-> 0, attempts |-> 0, result |-> ""]

InitRadio == r_calls = [h \in Handlers |-> NoCall]

\* The value that reports failure: None of safe_connect, False of
\* safe_play_radio.
Failure(fn) == IF fn = "safe_connect" THEN "None" ELSE "False"

\* What a successful attempt returns: the new voice client, or the global
\* voice_client when channel.connect raised "Already connected"; True.
Success(fn) == IF fn = "safe_connect" THEN {"vc", "voice_client"} ELSE {"True"}

\* The function entered with every retry_count making an attempt.
EnterUnbounded(call, retry_count) ==
    [call EXCEPT !.pc = "attempt", !.retry_count = retry_count, !.attempts = @ + 1]

\* safe_connect or safe_play_radio entered with retry_count, up to its return
\* or to the await of its attempt: "if retry_count >= MAX_RETRIES: return".
Enter(call, retry_count) ==
    IF retry_count >= MAX_RETRIES
    THEN [call EXCEPT !.pc = "done", !.retry_count = retry_count, !.result = Failure(call.fn)]
    ELSE [call EXCEPT !.pc = "attempt", !.retry_count = retry_count, !.attempts = @ + 1]

\* on_voice_state_update or !radio calls fn with the default retry_count.
RadioCall(h, fn) ==
    /\ r_calls[h].pc \in {"idle", "done"}
    /\ r_calls' = [r_calls EXCEPT ![h] = Enter([NoCall EXCEPT !.fn = fn], 0)]
    /\ UNCHANGED notRadio

\* The attempt succeeds and the function returns r.
AttemptReturns(h, r) ==
    /\ r_calls[h].pc = "attempt"
    /\ r \in Success(r_calls[h].fn)
    /\ r_calls' = [r_calls EXCEPT ![h].pc = "done", ![h].result = r]
    /\ UNCHANGED notRadio

\* The attempt fails (a timeout, an exception, a stream that is not playing):
\* the function sleeps RETRY_DELAY.
AttemptFails(h) ==
    /\ r_calls[h].pc = "attempt"
    /\ r_calls' = [r_calls EXCEPT ![h].pc = "sleep"]
    /\ UNCHANGED notRadio

\* The sleep is over: "return await safe_connect(channel, retry_count + 1)".
RetryWake(h) ==
    /\ r_calls[h].pc = "sleep"
    /\ r_calls' = [r_calls EXCEPT ![h] = Enter(@, @.retry_count + 1)]
    /\ UNCHANGED notRadio

NextRadio ==
    \/ \E h \in Handlers : \E fn \in {"safe_connect", "safe_play_radio"} : RadioCall(h, fn)
    \/ \E h \in Handlers : \E r \in {"vc", "voice_client", "True"} : AttemptReturns(h, r)
    \/ \E h \in Handlers : AttemptFails(h)
    \/ \E h \in Handlers : RetryWake(h)

\* ------------------------------------------------------ specifications ----
vars == <<rawVars, basicVars, adminVars, emoteVars, managerVars, radioVars>>

Init == InitRaw /\ InitBasic /\ InitAdmin /\ InitEmote /\ InitRadio /\ InitManager

\* The server owner bot: one RawRCONClient.
Next == NextRaw

Spec == Init /\ [][Next]_vars

\* The reconnection scenario of the server owner bot: DropPending handlers
\* send concurrently, the server answers within the timeout, and nobody calls
\* close().
DropCallers == 1..DropPending

InitDrop == InitRawFor(DropCallers) /\ InitBasic /\ InitAdmin /\ InitEmote /\ InitRadio /\ InitManager

\* The one connection drop of the scenario.
DropOnce(g) ==
    /\ \A h \in Conns : conn[h] # "closed"
    /\ Drop(g)

\* recv() returns the response to the request of caller c.
Reply(c) == \E t \in Conns : RecvFrame(t, Frame(TRUE, cid[c]))

NextDrop ==
    \/ BootConnectOk
    \/ BootConnectFail
    \/ \E c \in Callers : SendConnected(c)
    \/ \E c \in Callers : SendDisconnected(c)
    \/ \E c \in Callers : SendConnectOk(c)
    \/ \E c \in Callers : SendConnectFail(c)
    \/ \E c \in Callers : TimeoutUndelivered(c)
    \/ \E c \in Callers : ResumeResult(c)
    \/ \E c \in Callers : ResumeTimeout(c)
    \/ \E t \in Conns : RecvStart(t)
    \/ \E t \in Conns : \E f \in ServerFrames(rws[t]) : RecvFrame(t, f)
    \/ \E t \in Conns : RecvTimeout(t)
    \/ \E t \in Conns : RecvClosed(t)
    \/ \E g \in Conns : DropOnce(g)

\* The event loop runs every task that is ready, timers fire, a connection
\* attempt ends, and the server's response to a request is read while it can
\* be delivered.
FairDrop ==
    /\ \A c \in DropCallers : WF_vars(TimeoutUndelivered(c))
    /\ \A c \in DropCallers : WF_vars(ResumeResult(c))
    /\ \A c \in DropCallers : WF_vars(ResumeTimeout(c))
    /\ \A c \in DropCallers : WF_vars(SendConnectOk(c) \/ SendConnectFail(c))
    /\ \A c \in DropCallers : WF_vars(pc[c] = "waiting" /\ Reply(c))
    /\ \A t \in Conns : WF_vars(RecvStart(t))
    /\ \A t \in Conns : WF_vars(RecvClosed(t))

SpecDrop == InitDrop /\ [][NextDrop]_vars /\ FairDrop

\* The console: one RCON.
SpecBasic == Init /\ [][NextBasic]_vars

\* The admin bot: one RCONListener with its listening task.
SpecAdmin == Init /\ [][NextAdmin]_vars

\* The emote bot: one RCONListener whose callback is the emote engine.
SpecEmote == Init /\ [][NextEmote]_vars

\* The emote engine: one EmoteManager that starts with one of the emote files
\* of the scenarios.
InitEngine ==
    /\ InitRaw /\ InitBasic /\ InitAdmin /\ InitEmote /\ InitRadio
    /\ \E sc \in Scenarios :
           InitManagerWith({[exists |-> TRUE, lines |-> sc.lines]}, sc.players)

SpecManager == InitEngine /\ [][NextManager]_vars

\* The cooldown scenario: the emote engine with the emote file and the
\* players of the first scenario.
InitCooldown ==
    /\ InitRaw /\ InitBasic /\ InitAdmin /\ InitEmote /\ InitRadio
    /\ InitManagerWith({[exists |-> TRUE, lines |-> CooldownScenario.lines]},
                       CooldownScenario.players)

SpecCooldown == InitCooldown /\ [][NextCooldown]_vars

\* The handler at its awaits: the emote engine with the emotes and the players
\* of the gate scenario and one of the coordinate files.
InitCalls ==
    /\ InitRaw /\ InitBasic /\ InitAdmin /\ InitEmote /\ InitRadio
    /\ InitManagerFrom({[exists |-> TRUE, lines |-> GateScenario.lines]}, CoordinateFiles,
                       GateScenario.players)

SpecCalls == InitCalls /\ [][NextCalls]_vars

\* The coordinate store: the emote engine with a capture emote, two players
\* and one of the coordinate files.
InitStore ==
    /\ InitRaw /\ InitBasic /\ InitAdmin /\ InitEmote /\ InitRadio
    /\ InitManagerFrom({[exists |-> TRUE, lines |-> StoreScenario.lines]}, CoordinateFiles,
                       StoreScenario.players)

SpecStore == InitStore /\ [][NextStore]_vars

\* The emote engine with one emote whose time is one of the time texts.
InitTimes ==
    /\ InitRaw /\ InitBasic /\ InitAdmin /\ InitEmote /\ InitRadio
    /\ InitManagerWith(TimeFiles, <<"a">>)

SpecTimes == InitTimes /\ [][NextManager]_vars

\* The emote file: loaded, written from memory and read again.
InitRegistry ==
    /\ InitRaw /\ InitBasic /\ InitAdmin /\ InitEmote /\ InitRadio
    /\ InitManagerWith(RegistryFiles, << >>)

SpecRegistry == InitRegistry /\ [][NextRegistry]_vars

\* The admin bot with the scheduling of the event loop: the listening task
\* runs whenever it is ready, a sleep ends, close() and a connection attempt
\* end, and a send that has started runs to its return.  Nothing makes a
\* Discord user send a command.  The strong fairness of ListenConnectOk is the
\* hypothesis that the server accepts a connection again: of the attempts
\* repeated while it can accept, one succeeds.
FairAdmin ==
    /\ WF_vars(ListenTop)
    /\ WF_vars(ListenCloseDone)
    /\ WF_vars(ListenWake)
    /\ WF_vars(ListenRecvClosed)
    /\ WF_vars(ListenConnectOk \/ ListenConnectFail)
    /\ SF_vars(ListenConnectOk)
    /\ WF_vars(ListenReplyOk \/ ListenReplyFail)
    /\ \A c \in AdminCallers : WF_vars(AdminSendConnectOk(c) \/ AdminSendConnectFail(c))
    /\ \A c \in AdminCallers : WF_vars(AdminSendDone(c))
    /\ \A c \in AdminCallers : WF_vars(AdminSendFailed(c))

SpecAdminLive == Init /\ [][NextAdmin]_vars /\ FairAdmin

\* The radio bot: handlers calling safe_connect and safe_play_radio.
SpecRadio == Init /\ [][NextRadio]_vars

\* channel.connect has a timeout of 10 s and every sleep ends: an attempt
\* comes to an outcome and a sleeping call wakes.
FairRadio ==
    \A h \in Handlers :
        /\ WF_vars(AttemptFails(h) \/ \E r \in {"vc", "voice_client", "True"} : AttemptReturns(h, r))
        /\ WF_vars(RetryWake(h))

SpecRadioLive == Init /\ [][NextRadio]_vars /\ FairRadio

\* The emote bot with its tasks scheduled: a sleep is over, the loop takes
\* its next step, a connect() inside send_command returns, and the callback
\* ends: it sends the commands of one list, so it does not send for ever.
FairEmote ==
    /\ SF_vars(EmoteCallbackReturn)
    /\ WF_vars(EmoteListenWake)
    /\ WF_vars(EmoteListenTop)
    /\ WF_vars(EmoteSendConnectOk \/ EmoteSendConnectFail)

SpecEmoteLive == Init /\ [][NextEmote]_vars /\ FairEmote

\* ------------------------------------------------------------ claims ----

\* Caller c reads command_counter as the Identifier of a new request in this
\* step.
Allocates(c) ==
    /\ pc[c] \in {"idle", "connecting"}
    /\ pc'[c] = "waiting" \/ (ev'.rc = c /\ ev'.ret = "error")

\* Caller c returns from an awaited request in this step.
Returns(c) == pc[c] \in {"waiting", "timedout"} /\ ev'.rc = c

\* close() returns in this step.
CloseReturns ==
    \/ close_pc = "closing" /\ close_pc' = "idle"
    \/ closes' = closes + 1 /\ close_pc' = "idle"

\* C1: under any interleaving of sends, every Identifier a send allocates is
\* greater than every Identifier allocated before it, and no two requests that
\* are pending at the same time have the same Identifier.
C1_FreshIdentifiers ==
    [][/\ \A c \in Callers : Allocates(c) => command_counter > maxAlloc
       /\ \A c, d \in Callers :
            (c # d /\ pc'[c] = "waiting" /\ pc'[d] = "waiting"
                   /\ fut'[c] = "pending" /\ fut'[d] = "pending") => cid'[c] # cid'[d]]_vars

\* C2: send() returns the text of a frame as the response of its command only
\* when the frame carries the Identifier of that command.
C2_OwnIdentifier == rcon_ev.ret = "message" => rcon_ev.fid = rcon_ev.cmd

\* C3: a caller that saw no frame with its Identifier before the timeout
\* returns the timeout error, and its Identifier is then no key of the
\* pending map.
C3_TimeoutReturned ==
    [][\A c \in Callers :
         (Returns(c) /\ pc[c] = "timedout" /\ c \notin seen)
            => (ev'.ret = "timeout" /\ cid[c] \notin DOMAIN pending_responses')]_vars

\* C4: a frame whose Identifier belongs to a request that was already
\* fulfilled or has timed out fulfils no request and is reported as
\* unexpected.
C4_CompletedOnce ==
    [][(ev'.fid \in doneIds) => (ev'.to = 0 /\ ev'.passive)]_vars

\* C5: when process_rcon_message has finished with a decodable frame whose
\* Identifier was a key of the pending map, the key is no longer in the map,
\* whatever the text of the frame.
C5_KeyRemoved == a_ev.matched => a_ev.fid \notin DOMAIN a_pending_responses

\* C6: every decodable frame the session reads (none matches a pending
\* request, the session keeps no pending map) is handed to the callback.
C6_Forwarded == e_ev.json => e_ev.forwarded

\* C7: a frame that fulfils a pending request is not reported as unexpected
\* as well: each frame has at most one consumer.
C7_OneConsumer == ~(ev.to # 0 /\ ev.passive)

\* A frame has fulfilled the request of a waiting caller.
C7_Fulfilled == ev.to # 0 /\ ev.fid = cid[ev.to] /\ ~ev.passive

\* C8: once a connection has dropped with three requests pending on it, a
\* send whose command was written on a connection that is still open when the
\* send returns (a connection made after the drop) returns the response.
C8_DropRecovery ==
    [][\A c \in Callers :
         (Returns(c) /\ dropped /\ cws[c] # 0 /\ conn[cws[c]] = "open")
            => ev'.ret = "ok"]_vars

\* C9: when close() returns, no caller that was suspended on a request at the
\* time of the call is still suspended, and no Identifier of such a request
\* is a key of the pending map.
C9_CloseFailsPending ==
    [][CloseReturns =>
         \A c \in atClose' : /\ pc'[c] = "idle"
                             /\ cid'[c] \notin DOMAIN pending_responses']_vars

\* C10: when close() returns the websocket is released and the session is
\* marked disconnected, and close() on a session in that state changes none of
\* its fields.
C10_CloseIdempotent ==
    [][/\ CloseReturns => (websocket' = 0 /\ ~is_connected')
       /\ (closes' = closes + 1 /\ websocket = 0 /\ ~is_connected)
            => UNCHANGED <<websocket, is_connected, command_counter,
                           pending_responses, rtask>>]_vars

\* C11 as stated: a send called while the session is disconnected returns the
\* connection error and writes no frame.
C11_FailFast ==
    [][\A c \in Callers :
         (pc[c] = "connecting" /\ pc'[c] # "connecting")
            => (ev' = Return(c, "connfail") /\ written' = written)]_vars

\* C11: a send called while the session is disconnected makes one connection
\* attempt and does not wait beyond it: when the attempt fails the send
\* returns the connection error, writes no frame and leaves the session
\* disconnected; when it succeeds the command is written on the new
\* connection.
C11_ConnectOnce ==
    [][\A c \in Callers :
         (pc[c] = "connecting" /\ pc'[c] # "connecting")
            => \/ /\ ev' = Return(c, "connfail")
                  /\ written' = written
                  /\ conn' = conn
                  /\ ~is_connected'
               \/ /\ websocket' \in DOMAIN conn
                  /\ conn[websocket'] = "unused"
                  /\ conn'[websocket'] = "open"
                  /\ pc'[c] = "waiting"
                  /\ cid'[c] \in written'[websocket']]_vars

\* A send found the session disconnected and its connection attempt failed.
C11_Refused == ev.ret = "connfail" /\ ~is_connected /\ \E c \in Callers : ev.rc = c

\* C12: once a send has failed or the listening task has found the connection
\* closed, the session is marked disconnected, and while the server still
\* accepts a connection the session becomes connected again with the
\* listening task reading frames from the session's websocket.
C12_Reconnects ==
    (a_lpc # "off" /\ ~a_is_connected)
        ~> (\/ /\ a_is_connected
               /\ a_lpc = "recv" /\ a_lws = a_websocket /\ a_conn[a_lws] = "open"
            \/ ~AdminCanConnect)

\* The step is an evaluation of emote e for player p by handle_emote_request.
Evaluates(p, e) == m_ev'.kind = "chat" /\ m_ev'.player = p /\ m_ev'.emote = e

\* The players and the emotes of the run.
Players == {usernames[u] : u \in DOMAIN usernames}
Emotes == Names(emotes_data)

\* The cooldown of emote e, in minutes.
CooldownOf(e) == cooldown_minutes(emotes_data[IndexOf(emotes_data, e)].time)

\* C13: after emote e with cooldown c was executed with success for player p
\* at time t0, a chat event of p for e before t0 + c is rejected, with the
\* remaining time reported and no command sent, and one after t0 + c is
\* accepted.
C13_CooldownWindow ==
    [][\A p \in Players : \A e \in Emotes :
         (Evaluates(p, e) /\ <<p, e>> \in DOMAIN m_last)
            => LET t0 == m_last[<<p, e>>]
                   c == CooldownOf(e)
               IN  /\ now < t0 + c
                        => /\ m_ev'.outcome = "cooldown"
                           /\ m_ev'.sent = << >>
                           /\ m_ev'.left = t0 + c - now
                   /\ now > t0 + c => m_ev'.outcome # "cooldown"]_vars

\* The commands of emote e.
CommandsOf(e) == emotes_data[IndexOf(emotes_data, e)].commands

\* An entry of the cooldown map closes the gate for player p and emote e.
OnCooldown(cooldowns, p, e) ==
    /\ cooldown_key(p, e) \in DOMAIN cooldowns
    /\ now - cooldowns[cooldown_key(p, e)] < CooldownOf(e)

\* C14: an evaluation of an emote whose cooldown is 0 sends no command and
\* leaves the cooldown map and the capture marker as they were.
C14_DisabledNeverExecutes ==
    [][\A p \in Players : \A e \in Emotes :
         (Evaluates(p, e) /\ CooldownOf(e) = 0)
            => /\ m_ev'.sent = << >>
               /\ emote_cooldowns' = emote_cooldowns
               /\ current_printpos_player' = current_printpos_player]_vars

\* A chat event selected an emote with time 0 that has commands, after
\* another emote was executed.
C14_DisabledEvaluated ==
    /\ m_ev.outcome = "disabled"
    /\ emotes_data[IndexOf(emotes_data, m_ev.emote)].time = "0"
    /\ CommandsOf(m_ev.emote) # << >>
    /\ emote_cooldowns # << >>

\* Every command of emote e is a replay command.
ReplayOnly(e) ==
    /\ CommandsOf(e) # << >>
    /\ \A i \in 1..Len(CommandsOf(e)) : StartsWith(CommandsOf(e)[i], "teleportpos")

\* C15: an evaluation of an enabled emote of replay commands for a player
\* without stored coordinates, the gate open, sends no command, reports the
\* missing coordinates and leaves the cooldown map as it was, so that the
\* gate stays open for the player and the emote.
C15_ReplayWithoutCoordinates ==
    [][\A p \in Players : \A e \in Emotes :
         (/\ Evaluates(p, e) /\ ReplayOnly(e) /\ CooldownOf(e) # 0
          /\ get_player_coordinates(coordinates_config, p) = ""
          /\ ~OnCooldown(emote_cooldowns, p, e))
            => /\ m_ev'.sent = << >>
               /\ m_ev'.log = "no coordinates stored"
               /\ emote_cooldowns' = emote_cooldowns
               /\ ~OnCooldown(emote_cooldowns', p, e)]_vars

\* A replay emote was evaluated for a player without stored coordinates
\* while another player has coordinates and a cooldown entry.
C15_ReplayRefused ==
    /\ m_ev.outcome = "failed"
    /\ m_ev.emote \in Emotes /\ ReplayOnly(m_ev.emote)
    /\ m_ev.player \notin DOMAIN coordinates_config
    /\ coordinates_config # << >>
    /\ emote_cooldowns # << >>

\* C16: when text with a position (x, y, z) is observed while the capture
\* marker names player p, the last capture command having been sent for p,
\* the store holds "x,y,z" for p afterwards; and a replay command sent for a
\* player is the teleport command with exactly the string stored for them.
C16_CaptureThenReplay ==
    [][\A p \in Players :
         /\ (current_printpos_player = {p} /\ m_ev'.kind = "position")
                => get_player_coordinates(coordinates_config', p) = m_ev'.coordinates
         /\ \A e \in Emotes :
                (Evaluates(p, e) /\ ReplayOnly(e) /\ m_ev'.sent # << >>)
                   => \A i \in 1..Len(m_ev'.sent) :
                         m_ev'.sent[i] =
                             TeleportCommand(get_player_coordinates(coordinates_config, p), p)]_vars

\* C17: a chat event whose user, timestamp and text are those of an event
\* processed before is dropped: no emote is evaluated, no command is sent,
\* nothing is logged and the cooldown map and the marker stay as they were;
\* and the events processed are never forgotten.
C17_AtMostOnce ==
    [][/\ processed_chat_ids \subseteq processed_chat_ids'
       /\ (m_ev'.kind = "chat" /\ m_ev'.chat_id \in processed_chat_ids)
             => /\ m_ev'.emote = ""
                /\ m_ev'.sent = << >>
                /\ m_ev'.log = ""
                /\ emote_cooldowns' = emote_cooldowns
                /\ current_printpos_player' = current_printpos_player]_vars

\* An event that had executed an emote was delivered again after the
\* cooldown of the emote had passed.
C17_Redelivered ==
    /\ m_ev.kind = "chat" /\ m_ev.emote = ""
    /\ m_ev.chat_id \in processed_chat_ids
    /\ \E p \in Players : \E e \in Emotes :
          /\ <<p, e>> \in DOMAIN m_last
          /\ m_ev.chat_id = chat_id(CHOOSE u \in DOMAIN usernames : usernames[u] = p,
                                     m_last[<<p, e>>], e)
          /\ ~OnCooldown(emote_cooldowns, p, e)

\* C18: an evaluation of an emote for a player sets the cooldown entry of
\* the player and the emote to the time of the evaluation when at least one
\* of its commands was transmitted, and leaves the cooldown map as it was in
\* every other outcome.
C18_CooldownIffTransmitted ==
    [][\A p \in Players : \A e \in Emotes :
         Evaluates(p, e)
            => /\ m_ev'.sent # << >>
                    => emote_cooldowns' = Put(emote_cooldowns, cooldown_key(p, e), now)
               /\ m_ev'.sent = << >> => emote_cooldowns' = emote_cooldowns
               /\ m_ev'.sent # << >> <=> m_ev'.outcome = "success"]_vars

\* One of the two commands of an emote was transmitted, the other was not,
\* and the cooldown entry carries the time of the evaluation.
C18_PartlyTransmitted ==
    /\ m_ev.kind = "chat" /\ m_ev.emote \in Emotes
    /\ Len(CommandsOf(m_ev.emote)) = 2
    /\ Len(m_ev.sent) = 1
    /\ now > 0
    /\ cooldown_key(m_ev.player, m_ev.emote) \in DOMAIN emote_cooldowns
    /\ emote_cooldowns[cooldown_key(m_ev.player, m_ev.emote)] = now

\* C19: a chat event evaluates at most one emote, the first in the order of
\* the emote file whose name is in the text, and every command sent for the
\* event is a command of that emote, formatted for the player of the event.
C19_FirstMatchOnly ==
    [][m_ev'.kind = "chat"
         => LET hits == {i \in 1..Len(emotes_data) :
                             Contains(m_ev'.text, emotes_data[i].name)}
            IN  /\ m_ev'.emote # ""
                     => /\ IndexOf(emotes_data, m_ev'.emote) \in hits
                        /\ \A i \in hits : i >= IndexOf(emotes_data, m_ev'.emote)
                        /\ \A k \in 1..Len(m_ev'.sent) :
                               \E j \in 1..Len(CommandsOf(m_ev'.emote)) :
                                   m_ev'.sent[k] =
                                       FormattedCommand(CommandsOf(m_ev'.emote)[j],
                                                        m_ev'.player, coordinates_config)
                /\ m_ev'.emote = "" => m_ev'.sent = << >>]_vars

\* The text of a chat event had the names of two emotes in it and the
\* command of the first was sent.
C19_TwoMatches ==
    /\ m_ev.kind = "chat" /\ m_ev.emote \in Emotes
    /\ m_ev.sent # << >>
    /\ Contains(m_ev.text, m_ev.emote)
    /\ \E e \in Emotes : e # m_ev.emote /\ Contains(m_ev.text, e)

\* Two dicts of emotes are the same mapping: the same names, and for every
\* name the same time and the same commands in the same order.
SameMapping(d1, d2) ==
    /\ Names(d1) = Names(d2)
    /\ \A n \in Names(d1) :
          /\ d1[IndexOf(d1, n)].time = d2[IndexOf(d2, n)].time
          /\ d1[IndexOf(d1, n)].commands = d2[IndexOf(d2, n)].commands

\* C20: the dict read from the file that _write_emote_config wrote is the
\* mapping that was written.
C20_RoundTrip == m_pc = "reloaded" => SameMapping(emotes_data, m_saved)

\* A dict read from a file, with two emotes of which one has a time other
\* than the default and a command, was written and read again.
C20_Reloaded ==
    /\ m_pc = "reloaded"
    /\ Len(m_saved) = 2
    /\ \E i \in 1..Len(m_saved) : m_saved[i].time # "0" /\ m_saved[i].commands # << >>


\* The step is the constructor of the manager finding no emote file.
CreatesDefaults == m_pc = "new" /\ ~emotes_file.exists /\ m_pc' # "new"

\* The dict has one entry per emote of ALL_EMOTES and no other.
OnePerEmote(d) ==
    /\ Len(d) = Len(ALL_EMOTES)
    /\ Names(d) = {ALL_EMOTES[i] : i \in 1..Len(ALL_EMOTES)}

Malformed(e) == ParseInt(emotes_data[IndexOf(emotes_data, e)].time).err

\* C22: an evaluation of an emote whose time is no numeral ends as the
\* evaluation of a disabled emote: it returns, sends no command and leaves the
\* cooldown map and the capture marker as they were.
C22_MalformedIsDisabled ==
    [][\A p \in Players : \A e \in Emotes :
         (Evaluates(p, e) /\ Malformed(e))
            => /\ m_ev'.outcome = "disabled"
               /\ m_ev'.sent = << >>
               /\ emote_cooldowns' = emote_cooldowns
               /\ current_printpos_player' = current_printpos_player]_vars

\* A chat event of a player selected an emote with a command whose time is
\* text that int() refuses.
C22_MalformedEvaluated ==
    /\ m_ev.kind = "chat" /\ m_ev.player # "" /\ m_ev.emote \in Emotes
    /\ Malformed(m_ev.emote)
    /\ CommandsOf(m_ev.emote) # << >>


\* C23: a send that timed out returns the timeout result, which is not the
\* result of a send that failed for a connection reason, and leaves
\* is_connected as it was.
C23_TimeoutIsNotDisconnect ==
    [][\A c \in Callers :
         (pc[c] = "timedout" /\ pc'[c] = "idle")
            => /\ ev' = Return(c, "timeout")
               /\ ev'.ret \notin {"connfail", "error"}
               /\ is_connected' = is_connected]_vars


\* The step stores the coordinates of a positional text for player p.
Updates(p) == m_ev'.kind = "position" /\ p # "" /\ current_printpos_player = {p}

\* C24: after an update of the coordinates of player p the store maps p to
\* the value written, the entries of the other players are as before, and the
\* coordinate file holds the mapping of the store.
C24_LastWriteWins ==
    [][\A p \in Players :
         Updates(p)
            => /\ get_player_coordinates(coordinates_config', p) = m_ev'.coordinates
               /\ DOMAIN coordinates_config' \ {p} = DOMAIN coordinates_config \ {p}
               /\ \A q \in DOMAIN coordinates_config \ {p} :
                     coordinates_config'[q] = coordinates_config[q]
               /\ coordinates_file'.exists
               /\ ReadCoordinates(coordinates_file'.lines) = coordinates_config']_vars


\* C25: no command of a user is written with the Identifier of the envelope
\* that connect() sends to open the session, so that no pending request is
\* filed under that Identifier.
C25_ReservedIdentifier ==
    [][\A c \in AdminCallers :
         (a_spc[c] # "sent" /\ a_spc'[c] = "sent")
            => /\ a_command_counter # InitIdentifier
               /\ InitIdentifier \notin DOMAIN a_pending_responses']_vars


\* The step is the return of a send_command with success that is the first
\* of call k.
FirstTransmission(k) ==
    /\ m_ev'.kind = "sent"
    /\ k \in DOMAIN h_calls'
    /\ h_calls[k].i # 0
    /\ h_calls[k].executed = 0
    /\ h_calls'[k].executed = 1

\* C26: of two chat events of one player for one emote, the second does not
\* pass the gate within the cooldown of a first that passed it and
\* transmitted a command, wherever the handler of the first was suspended:
\* an evaluation within the cooldown is rejected, and a call transmits its
\* first command only when it started a cooldown or more after the last call
\* that transmitted one.
C26_OnePassPerWindow ==
    [][\A p \in Players : \A e \in Emotes :
         <<p, e>> \in DOMAIN m_last
            => /\ (Evaluates(p, e) /\ now < m_last[<<p, e>>] + CooldownOf(e))
                     => (m_ev'.outcome = "cooldown" /\ m_ev'.sent = << >>)
               /\ \A k \in DOMAIN h_calls :
                     (FirstTransmission(k) /\ h_calls[k].player = p /\ h_calls[k].emote = e)
                        => h_calls[k].time >= m_last[<<p, e>>] + CooldownOf(e)]_vars

\* A chat event was rejected within the cooldown of an earlier one of the
\* same player for the same emote, whose handler was suspended at two sends,
\* the clock having advanced since it started.
C26_SecondRejected ==
    /\ m_ev.kind = "chat" /\ m_ev.outcome = "cooldown"
    /\ <<m_ev.player, m_ev.emote>> \in DOMAIN m_last
    /\ Len(CommandsOf(m_ev.emote)) > 1
    /\ m_last[<<m_ev.player, m_ev.emote>>] < now


\* The commands of a list that have something to send for a player, by their
\* index in list order: all but the blank ones and the replay commands of a
\* player without stored coordinates.
Sendable(player_name, commands) ==
    SelectSeq([i \in 1..Len(commands) |-> i],
              LAMBDA i : /\ Strip(commands[i]) # ""
                         /\ ~(/\ StartsWith(commands[i], "teleportpos")
                              /\ ~Stored(get_player_coordinates(coordinates_config,
                                                                player_name))))

\* Call k leaves the loop over the commands in this step.
LeavesLoop(k) ==
    /\ k \in DOMAIN h_calls'
    /\ h_calls'[k].i = 0
    /\ m_ev'.outcome \in {"success", "failed"}
    /\ m_ev'.player = h_calls'[k].player
    /\ m_ev'.emote = h_calls'[k].emote
    /\ (m_ev'.kind = "sent" => k \in DOMAIN h_calls /\ h_calls[k].i # 0)
    /\ (m_ev'.kind = "chat" => k = Len(h_calls') /\ Len(h_calls') = Len(h_calls) + 1)

\* C27: once an evaluation has passed the cooldown gate, the commands handed
\* to send_command so far are, at every await, the first ones of the list in
\* list order, each once, and when the loop is left they are all of them,
\* whether the sends before succeeded or failed; a replay command of a player
\* without stored coordinates is passed over and the commands after it are
\* still sent.
C27_AllAttemptedInOrder ==
    [][\A k \in DOMAIN h_calls' :
          LET call == h_calls'[k]
              all == Sendable(call.player, CommandsOf(call.emote))
          IN  /\ Len(call.attempts) <= Len(all)
              /\ call.attempts = SubSeq(all, 1, Len(call.attempts))
              /\ call.i # 0 => call.attempts # << >> /\ call.i = call.attempts[Len(call.attempts)]
              /\ LeavesLoop(k) => call.attempts = all]_vars

\* A call has left the loop after a failed send and a replay command without
\* coordinates, with the command after them sent.
C27_SentAfterFailures ==
    /\ m_ev.kind = "sent"
    /\ m_ev.outcome = "success"
    /\ \E k \in DOMAIN h_calls :
          /\ h_calls[k].i = 0
          /\ h_calls[k].attempts = <<1, 3>>
          /\ h_calls[k].executed = 1
          /\ h_calls[k].teleport_failed
          /\ m_ev.sent # << >>


\* A capture command is among the commands the step has transmitted.
CaptureSent == \E i \in DOMAIN m_ev'.sent : StartsWith(m_ev'.sent[i], "printpos")

\* C28: the marker is set to the player when a capture command is issued
\* for them; the next positional text observed is stored for the marked player
\* and clears the marker; a positional text observed while the marker is clear
\* leaves the Coordinate Store and its file unchanged.
C28_MarkerProtocol ==
    [][/\ (m_ev'.kind = "chat" /\ CaptureSent) => current_printpos_player' = {m_ev'.player}
       /\ (m_ev'.kind = "position" /\ current_printpos_player # {})
             => /\ current_printpos_player' = {}
                /\ \A p \in current_printpos_player :
                      get_player_coordinates(coordinates_config', p) = m_ev'.coordinates
       /\ (m_ev'.kind = "position" /\ current_printpos_player = {})
             => UNCHANGED <<coordinates_config, coordinates_file, current_printpos_player>>]_vars


\* Capture requests for player A, then for another player B, were transmitted
\* with no positional text between them, and n positional texts have been
\* observed after them.
TwoAsked(A, B, n) == A # B /\ m_asked = [asked |-> <<A, B>>, answered |-> n]

\* C29 as stated: after capture requests for two players A then B, the second
\* positional text observed is stored for player A.
C29_SecondToFirst ==
    [][\A A \in Players : \A B \in Players :
          (TwoAsked(A, B, 1) /\ m_ev'.kind = "position")
             => get_player_coordinates(coordinates_config', A) = m_ev'.coordinates]_vars

\* C29: after capture requests for two players A then B, the marker names B.
\* The first positional text observed clears the marker and is stored for B
\* (for nobody when B is the name of the default section), the coordinates of A
\* staying as they were; the second finds the marker clear and leaves the
\* Coordinate Store and its file unchanged.
C29_FirstToSecond ==
    [][\A A \in Players : \A B \in Players :
          /\ TwoAsked(A, B, 0) => current_printpos_player = {B}
          /\ (TwoAsked(A, B, 0) /\ m_ev'.kind = "position")
                => /\ current_printpos_player' = {}
                   /\ B # DefaultSection
                         => get_player_coordinates(coordinates_config', B) = m_ev'.coordinates
                   /\ B = DefaultSection => UNCHANGED <<coordinates_config, coordinates_file>>
                   /\ get_player_coordinates(coordinates_config', A)
                         = get_player_coordinates(coordinates_config, A)
          /\ TwoAsked(A, B, 1) => current_printpos_player = {}
          /\ (TwoAsked(A, B, 1) /\ m_ev'.kind = "position")
                => UNCHANGED <<coordinates_config, coordinates_file,
                               current_printpos_player>>]_vars

\* Two positional texts were observed after the capture requests of a, then
\* of b: the first is stored for b, the second, another text, for nobody.
C29_SecondDropped ==
    /\ TwoAsked("a", "b", 2)
    /\ m_ev.kind = "position"
    /\ m_ev.coordinates = "0,0,0"
    /\ get_player_coordinates(coordinates_config, "b") = "12.5,-3.0,100.0"
    /\ get_player_coordinates(coordinates_config, "a") = ""
    /\ current_printpos_player = {}


\* The last frame listen_continuously read was not JSON.
RawFrameRead == ~e_ev.json /\ e_ev.text # ""

\* C30: a frame that is not JSON is handed to the callback of the passive
\* stream as raw text, and the receive loop goes on.
C30_RawFrameSurfaced == RawFrameRead => (e_ev.forwarded /\ e_lpc \in {"callback", "top", "recv"})


\* C31: the listening task, once created, never ends, and whatever happened
\* in the callback (a send that failed, an exception that left it) the loop
\* comes back to read the next frame: to recv(), or to connect() when the
\* session was marked disconnected.
C31_EngineGoesOn ==
    /\ [][e_lpc # "off" => e_lpc' # "off"]_vars
    /\ (e_lpc = "callback") ~> (e_lpc \in {"recv", "connecting"})

\* The callback has raised on a connected session: the loop sleeps before it
\* starts over.
C31_RaisedAndSleeping == e_lpc = "sleep" /\ e_is_connected


\* Receive task t is alive: created and not yet run, or waiting in recv().
Alive(t) == rtask[t] \in {"new", "recv"}

C33_OneConnection ==
    [][/\ Cardinality({g \in Conns : e_conn'[g] = "open"}) <= 1
       /\ (e_websocket' # e_websocket /\ e_websocket # 0) => e_conn[e_websocket] = "closed"]_vars

\* The session has replaced a connection: the first is closed, the second is
\* open and is the session's websocket.
C33_Replaced == e_conn = <<"closed", "open">> /\ e_websocket = 2 /\ e_is_connected


\* C34: when recv() has timed out and the ping succeeds the listener goes on
\* listening, the session as connected as before; when the ping fails the
\* session is marked disconnected and listen_forever ends, and listen_to_rcon,
\* back at the head of its loop with the session disconnected, reconnects.
C34_Keepalive ==
    [][/\ a_ev'.ping = "ok"
             => /\ a_lpc' = "recv" /\ a_listening' /\ a_lws' = a_websocket
                /\ a_is_connected' = a_is_connected
       /\ a_ev'.ping = "failed"
             => ~a_is_connected' /\ ~a_listening' /\ a_lpc' = "top"
       /\ (a_lpc = "top" /\ ~a_is_connected /\ a_lpc' # "top")
             => a_lpc' \in {"closing", "connecting"}]_vars

\* The keepalive has failed: the listen loop has ended with the session
\* marked disconnected.
C34_PingFailed == a_ev.ping = "failed" /\ ~a_is_connected /\ a_lpc = "top"


\* connect() of the Admin session returned in this step: to on_ready, to
\* reconnect() in the listening task, or to send_command of caller c; and
\* what it returned.
ConnectReturned ==
    \/ a_boot = "connecting" /\ a_boot' = "done"
    \/ a_lpc = "connecting" /\ a_lpc' # "connecting"
    \/ \E c \in AdminCallers : a_spc[c] = "connecting" /\ a_spc'[c] # "connecting"

ConnectReturnedTrue ==
    \/ a_boot = "connecting" /\ a_boot' = "done" /\ a_lpc' = "top"
    \/ a_lpc = "connecting" /\ a_lpc' = "recv"
    \/ \E c \in AdminCallers : a_spc[c] = "connecting" /\ a_spc'[c] \in {"sent", "failed"}

C36_NoEntryForUnwritten ==
    (\A c \in AdminCallers : a_spc[c] \in {"idle", "connecting"})
        => a_command_counter \notin DOMAIN a_pending_responses


\* The emote of the last chat event has a capture command, its loop ran, and
\* no capture command was transmitted: the send of each one failed.
CaptureNotSent ==
    /\ m_ev.kind = "chat"
    /\ m_ev.outcome \in {"success", "failed"}
    /\ \E i \in DOMAIN emotes_data :
          /\ emotes_data[i].name = m_ev.emote
          /\ \E j \in DOMAIN emotes_data[i].commands :
                StartsWith(emotes_data[i].commands[j], "printpos")
    /\ ~\E i \in DOMAIN m_ev.sent : StartsWith(m_ev.sent[i], "printpos")

\* C37: a chat event changes the marker only by setting it to its player, and
\* only when a capture command for that player was transmitted; an emote whose
\* capture commands all failed to be sent leaves the marker as it was; so the
\* marker, when set, names the player of the last capture request transmitted,
\* and a positional text is stored for that player only.
C37_MarkedOnlyWhenSent ==
    /\ [][/\ (m_ev'.kind = "chat" /\ current_printpos_player' # current_printpos_player)
                => /\ CaptureSent
                   /\ m_ev'.sent[CHOOSE i \in DOMAIN m_ev'.sent :
                                     StartsWith(m_ev'.sent[i], "printpos")]
                         = "printpos \"" \o m_ev'.player \o "\""
                   /\ current_printpos_player' = {m_ev'.player}
          /\ CaptureNotSent' => current_printpos_player' = current_printpos_player]_vars
    /\ [](current_printpos_player # {}
             => /\ m_asked.asked # << >>
                /\ current_printpos_player = {m_asked.asked[Len(m_asked.asked)]})

\* Player a's capture was transmitted and marked; then player b's emote ran
\* and its capture was not sent: the marker still names a.
C37_FailedCaptureKeptMarker ==
    /\ CaptureNotSent
    /\ m_ev.player = "b"
    /\ current_printpos_player = {"a"}
    /\ m_asked.asked = <<"a">>


\* C38: a session marked connected has a websocket.
C38_ConnectedHasHandle == is_connected => websocket # 0


\* C39: a call of safe_connect or safe_play_radio makes at most MAX_RETRIES
\* attempts, with retry_count below MAX_RETRIES at each; every retry enters
\* the function with retry_count one higher; after the attempt with
\* retry_count = MAX_RETRIES - 1 failed the call returns None (False) without
\* another attempt; and every call returns.
C39_RetriesEnd ==
    /\ [](\A h \in Handlers :
             /\ r_calls[h].attempts <= MAX_RETRIES
             /\ r_calls[h].pc \in {"attempt", "sleep"}
                   => /\ r_calls[h].retry_count < MAX_RETRIES
                      /\ r_calls[h].attempts = r_calls[h].retry_count + 1)
    /\ [][\A h \in Handlers :
             r_calls[h].pc = "sleep" /\ r_calls'[h] # r_calls[h]
                => /\ r_calls'[h].retry_count = r_calls[h].retry_count + 1
                   /\ IF r_calls[h].retry_count = MAX_RETRIES - 1
                      THEN /\ r_calls'[h].pc = "done"
                           /\ r_calls'[h].result = Failure(r_calls[h].fn)
                           /\ r_calls'[h].attempts = MAX_RETRIES
                      ELSE /\ r_calls'[h].pc = "attempt"
                           /\ r_calls'[h].attempts = r_calls[h].attempts + 1]_vars
    /\ \A h \in Handlers : (r_calls[h].pc \in {"attempt", "sleep"}) ~> (r_calls[h].pc = "done")

\* safe_connect has returned None after MAX_RETRIES attempts while
\* safe_play_radio of another handler has returned False after as many.
C39_GaveUp ==
    /\ r_calls[1] = [fn |-> "safe_connect", pc |-> "done", retry_count |-> MAX_RETRIES,
                     attempts |-> MAX_RETRIES, result |-> "None"]
    /\ r_calls[2] = [fn |-> "safe_play_radio", pc |-> "done", retry_count |-> MAX_RETRIES,
                     attempts |-> MAX_RETRIES, result |-> "False"]

=============================================================================
